---- MODULE Spec2Model ----
(***************************************************************************)
(* Change-detection persistence, expiry sweep and scan cycles of the       *)
(* procurement scanner (backend/models.py, backend/main.py,                *)
(* backend/tasks.py).                                                      *)
(*                                                                         *)
(* Encoding.  A tender_data dict is a record.  Dates are day numbers; the  *)
(* Python value None / SQL NULL of a date column is NoDate, and a          *)
(* timezone-aware Timestamp (what the pandas fallback of _parse_date       *)
(* returns for a text that carries a UTC offset) is AwareDate.  The plain  *)
(* copied columns (title, organization, description, location, urls) are   *)
(* all handled alike by the code and are represented by title.  The key    *)
(* 'portal_url', which the dicts built in scrapers.py do not carry, is     *)
(* represented by the flag has_portal_url.                                 *)
(***************************************************************************)
EXTENDS Integers, Sequences, FiniteSets, TLC

VARIABLES db, now, ticks, hashSeed, last, src, cyc, wr, pair, srch, drv, sess,
          ext, mat, casc

vars == <<db, now, ticks, hashSeed, last, src, cyc, wr, pair, srch, drv, sess,
          ext, mat, casc>>

(***************************************************************************)
(* Bounds of the model.                                                    *)
(***************************************************************************)
MaxTicks == 1
MaxCycles == 2
MaxBatch == 2
TickStep == 200

(***************************************************************************)
(* Program constants.                                                      *)
(***************************************************************************)
RetentionDays == 180
HighValue == 1000000
MediumValue == 500000
HighDays == 7
MediumDays == 14
HighCourses == 3
HighCategories == 2
MaxCourses == 5
TopKeywords == 5

NoDate == 0 - 1
AwareDate == 0 - 2

IsDate(d) == d >= 0

(***************************************************************************)
(* Small helpers on sequences.                                             *)
(***************************************************************************)
Range(s) == {s[i] : i \in 1..Len(s)}

Min2(a, b) == IF a < b THEN a ELSE b

Prefix(s, n) == SubSeq(s, 1, Min2(n, Len(s)))

(***************************************************************************)
(* Domains of the model.                                                   *)
(***************************************************************************)
Portals == {"CanadaBuys", "BC Bid", "SaskTenders", "Ontario Tenders Portal",
            "Manitoba Tenders"}

TenderIds == {"", "T1", "T2"}

Titles == {"a", "b"}

Seeds == {1, 2}

NoRec == [id |-> "NoRec"]

(***************************************************************************)
(* TKA_COURSES (main.py 103-136), cut down to two categories.  Each        *)
(* category has a keyword list and a course list.                          *)
(***************************************************************************)
Categories == {"x", "y"}

TKA_COURSES ==
    [x |-> [keywords |-> <<"k1", "k2">>, courses |-> <<"X1", "X2">>],
     y |-> [keywords |-> <<"k3", "k4">>, courses |-> <<"Y1">>]]

AllCourses == {"X1", "X2", "Y1"}

(* Words of a course name that are longer than 3 characters. *)
CourseWords(course) == {course}

(***************************************************************************)
(* Iteration order of a Python set of strings.  It depends on the hash     *)
(* seed of the interpreter process: one order per seed.                    *)
(***************************************************************************)
SetOrder(seed) ==
    IF seed = 1 THEN <<"X1", "X2", "Y1">> ELSE <<"Y1", "X2", "X1">>

InSet(S) == [c \in AllCourses |-> c \in S]

ListOfSet(S, seed) ==
    LET member == InSet(S)
        Keep(c) == member[c]
    IN SelectSeq(SetOrder(seed), Keep)

(***************************************************************************)
(* TenderMatcher.match_courses (main.py 1596-1619).  The text of a tender  *)
(* is its title and its keywords; "term in text" stands for the substring  *)
(* test.                                                                   *)
(***************************************************************************)
TenderText(t) == {t.title} \cup Range(t.keywords)

CourseMatches(course, cat, text) ==
    \/ course \in text
    \/ CourseWords(course) \cap text # {}
    \/ Range(Prefix(TKA_COURSES[cat].keywords, TopKeywords)) \cap text # {}

MatchedSet(t) ==
    {course \in AllCourses :
        \E i \in 1..Len(t.categories) :
            /\ t.categories[i] \in Categories
            /\ course \in Range(TKA_COURSES[t.categories[i]].courses)
            /\ CourseMatches(course, t.categories[i], TenderText(t))}

match_courses(t, seed) == Prefix(ListOfSet(MatchedSet(t), seed), MaxCourses)

(***************************************************************************)
(* TenderMatcher.calculate_priority (main.py 1621-1646).  Subtracting      *)
(* utcnow() from a timezone-aware closing date raises TypeError.           *)
(***************************************************************************)
PriorityRaises(t) == t.closing_date = AwareDate

calculate_priority(t, clock) ==
    IF t.closing_date = NoDate THEN "low"
    ELSE LET days_until_closing == t.closing_date - clock
         IN IF \/ t.value > HighValue
               \/ days_until_closing < HighDays
               \/ Len(t.matching_courses) >= HighCourses
               \/ Len(t.categories) >= HighCategories
            THEN "high"
            ELSE IF \/ t.value > MediumValue
                    \/ days_until_closing < MediumDays
                    \/ Len(t.matching_courses) >= 1
                 THEN "medium"
                 ELSE "low"

(***************************************************************************)
(* The two statements that open the body of both save loops                *)
(* (tasks.py 160-161, main.py 1783-1784): the dict gets its                *)
(* matching_courses and its priority before it is saved.                   *)
(***************************************************************************)
WithCourses(c, seed) ==
    [tender_id |-> c.tender_id, portal |-> c.portal, title |-> c.title,
     value |-> c.value, closing_date |-> c.closing_date,
     posted_date |-> c.posted_date, categories |-> c.categories,
     keywords |-> c.keywords, has_portal_url |-> c.has_portal_url,
     matching_courses |-> match_courses(c, seed), priority |-> ""]

Augment(c, seed, clock) ==
    LET t == WithCourses(c, seed)
    IN [t EXCEPT !.priority = calculate_priority(t, clock)]

(***************************************************************************)
(* content hash: md5(json.dumps(tender_data, sort_keys=True, default=str)) *)
(* (models.py 55-57, main.py 1671-1673).  The dump lists the keys in       *)
(* sorted order and every list in the order it has in the dict; md5 is     *)
(* taken to be collision free, so the digest is the dump.                  *)
(***************************************************************************)
JsonDumps(t) ==
    << <<"categories", t.categories>>,
       <<"closing_date", t.closing_date>>,
       <<"keywords", t.keywords>>,
       <<"matching_courses", t.matching_courses>>,
       <<"portal", t.portal>>,
       <<"portal_url", t.has_portal_url>>,
       <<"posted_date", t.posted_date>>,
       <<"priority", t.priority>>,
       <<"tender_id", t.tender_id>>,
       <<"title", t.title>>,
       <<"value", t.value>> >>

(* Variant: the lists are dumped as sets. *)
ContentHashOfSets(t) ==
    JsonDumps([t EXCEPT !.categories = Range(t.categories),
                        !.keywords = Range(t.keywords)])

ContentHash(t) == JsonDumps(t)

(***************************************************************************)
(* The table "tenders" (models.py 23-49, main.py 45-70): a set of rows,    *)
(* with id the primary key and tender_id declared unique.                  *)
(***************************************************************************)
Lookup(table, tender_id) ==
    IF \E r \in table : r.tender_id = tender_id
    THEN CHOOSE r \in table : r.tender_id = tender_id
    ELSE NoRec

NewRow(id, t, content_hash, clock) ==
    [id |-> id, tender_id |-> t.tender_id, portal |-> t.portal,
     title |-> t.title, value |-> t.value, closing_date |-> t.closing_date,
     posted_date |-> t.posted_date, categories |-> t.categories,
     keywords |-> t.keywords, hash |-> content_hash, is_active |-> TRUE,
     last_updated |-> clock, priority |-> t.priority,
     matching_courses |-> t.matching_courses]

(* Variant: an update is reported like an insert. *)
OutcomeAlwaysNew(table, ret, effect) ==
    [db |-> table, ret |-> effect \in {"new", "updated"}, effect |-> effect]

Outcome(table, ret, effect) == [db |-> table, ret |-> ret, effect |-> effect]

(* Variant: the unique constraints are not enforced. *)
UniqueViolationUnchecked(table, row) == FALSE

UniqueViolation(table, row) ==
    \E r \in table : r.id = row.id \/ r.tender_id = row.tender_id

(***************************************************************************)
(* The session's unit of work.  existing is the object the query loaded;   *)
(* commit() sends an UPDATE, keyed by the primary key, of the attributes   *)
(* whose value differs from the loaded one, so the other columns keep what *)
(* the table holds at that moment.                                         *)
(***************************************************************************)
Stored(table, existing) ==
    IF \E r \in table : r.id = existing.id
    THEN CHOOSE r \in table : r.id = existing.id
    ELSE existing

Flush(table, existing, updated) ==
    LET current == Stored(table, existing)
    IN (table \ {current}) \cup
       {[f \in DOMAIN current |->
            IF updated[f] # existing[f] THEN updated[f] ELSE current[f]]}

(***************************************************************************)
(* save_tender_to_db of models.py (51-120), the one tasks.py imports.      *)
(* tender_data['portal_url'] raises KeyError when the dict has no such     *)
(* key; the except clause rolls back and returns False.                    *)
(***************************************************************************)
(* Variant: the update also resets is_active. *)
ModelsUpdatedRowReactivating(existing, t, content_hash, clock) ==
    [existing EXCEPT !.title = t.title, !.portal = t.portal,
                     !.value = t.value, !.closing_date = t.closing_date,
                     !.categories = t.categories, !.keywords = t.keywords,
                     !.last_updated = clock, !.hash = content_hash,
                     !.priority = t.priority,
                     !.matching_courses = t.matching_courses,
                     !.is_active = TRUE]

ModelsUpdatedRow(existing, t, content_hash, clock) ==
    [existing EXCEPT !.title = t.title, !.portal = t.portal,
                     !.value = t.value, !.closing_date = t.closing_date,
                     !.categories = t.categories, !.keywords = t.keywords,
                     !.last_updated = clock, !.hash = content_hash,
                     !.priority = t.priority,
                     !.matching_courses = t.matching_courses]

(* Lines 64-115, from the result of the query to the return. *)
ModelsWrite(table, existing, t, clock) ==
    LET content_hash == ContentHash(t)
        row == NewRow(t.tender_id, t, content_hash, clock)
    IN IF existing # NoRec
       THEN IF existing.hash # content_hash
            THEN IF ~t.has_portal_url
                 THEN Outcome(table, FALSE, "error")
                 ELSE Outcome(Flush(table, existing,
                                ModelsUpdatedRow(existing, t, content_hash, clock)),
                              FALSE, "updated")
            ELSE Outcome(table, FALSE, "unchanged")
       ELSE IF ~t.has_portal_url \/ UniqueViolation(table, row)
            THEN Outcome(table, FALSE, "error")
            ELSE Outcome(table \cup {row}, TRUE, "new")

ModelsSave(table, t, clock) ==
    ModelsWrite(table, Lookup(table, t.tender_id), t, clock)

(***************************************************************************)
(* save_tender_to_db of main.py (1648-1718), the one scan_all_portals      *)
(* calls.  On update every key of the dict is written with setattr.        *)
(***************************************************************************)
MainUpdatedRow(existing, t, content_hash, clock) ==
    [existing EXCEPT !.tender_id = t.tender_id, !.title = t.title,
                     !.portal = t.portal, !.value = t.value,
                     !.closing_date = t.closing_date,
                     !.posted_date = t.posted_date,
                     !.categories = t.categories, !.keywords = t.keywords,
                     !.priority = t.priority,
                     !.matching_courses = t.matching_courses,
                     !.hash = content_hash, !.last_updated = clock]

(* Lines 1678-1713, from the result of the query to the return. *)
MainWrite(table, existing, t, clock) ==
    LET tender_hash == ContentHash(t)
        row == NewRow(t.portal \o "_" \o t.tender_id, t, tender_hash, clock)
    IN IF existing # NoRec
       THEN IF existing.hash # tender_hash
            THEN Outcome(Flush(table, existing,
                           MainUpdatedRow(existing, t, tender_hash, clock)),
                         FALSE, "updated")
            ELSE Outcome(table, FALSE, "unchanged")
       ELSE IF UniqueViolation(table, row)
            THEN Outcome(table, FALSE, "error")
            ELSE Outcome(table \cup {row}, TRUE, "new")

MainSave(table, t, clock) ==
    IF t.tender_id = ""
    THEN Outcome(table, FALSE, "skipped")
    ELSE MainWrite(table, Lookup(table, t.tender_id), t, clock)

(***************************************************************************)
(* The expiry sweep of scan_all_portals (main.py 1794-1799) and the        *)
(* scheduled task clean_expired_tenders (tasks.py 344-367).  A NULL        *)
(* closing_date never satisfies closing_date < t.                          *)
(***************************************************************************)
Expired(r, clock) == IsDate(r.closing_date) /\ r.closing_date < clock

(* Variant: the sweep deletes what it should mark. *)
MarkExpiredDeleting(table, clock) ==
    {r \in table : ~(r.is_active /\ Expired(r, clock))}

MarkExpired(table, clock) ==
    {IF r.is_active /\ Expired(r, clock)
     THEN [r EXCEPT !.is_active = FALSE] ELSE r : r \in table}

DeleteOld(table, clock) ==
    {r \in table : ~(Expired(r, clock - RetentionDays) /\ ~r.is_active)}

CleanExpiredTenders(table, clock) == DeleteOld(MarkExpired(table, clock), clock)

(***************************************************************************)
(* What a portal shows: rows.  terms is the set of taxonomy keywords that  *)
(* occur in the row's text.  The clock advances TickStep days at a time:   *)
(* a closing date of day 10 is ahead at day 0 and, at day 200, past and     *)
(* older than RetentionDays.                                               *)
(***************************************************************************)
Closings == {NoDate, 10, AwareDate}

(* The text of title "a" contains the keywords k1 and k2; title "b"       *)
(* contains no keyword of the taxonomy.                                    *)
TermsOf(title) == IF title = "a" THEN {"k1", "k2"} ELSE {}

Row(i, t, d) ==
    [tender_id |-> i, title |-> t, closing_date |-> d, terms |-> TermsOf(t)]

Rows == {Row("T1", t, d) : t \in Titles, d \in Closings}

(* Rows offered to the Celery path and to scan_all_portals. *)
TasksRows == Rows \cup {Row("T2", "b", NoDate)}

MainRows == Rows \cup {Row("", "b", NoDate)}

CategoryOrder == <<"x", "y">>

KeywordOrder == <<"k1", "k2", "k3", "k4">>

MaxKeywords == 10

(* _extract_categories_from_text (main.py 1342-1353) *)
ExtractCategories(terms) ==
    LET hits == [c \in Categories |->
                    Cardinality(Range(TKA_COURSES[c].keywords) \cap terms) >= 2]
        Attach(c) == hits[c]
    IN SelectSeq(CategoryOrder, Attach)

(* _extract_keywords_from_text (main.py 1355-1366) *)
ExtractKeywords(terms) ==
    LET hits == [k \in Range(KeywordOrder) |-> k \in terms]
        Found(k) == hits[k]
    IN Prefix(SelectSeq(KeywordOrder, Found), MaxKeywords)

(***************************************************************************)
(* The dicts the adapters build.  _parse_canadabuys_row (main.py 640-675)  *)
(* drops a row without tender_id; _parse_bcbid_row (main.py 1052-1079)     *)
(* and scan_saskatchewan_tenders (scrapers.py 122-167) stamp posted_date   *)
(* with utcnow(); the dicts of scrapers.py (SaskTenders, Manitoba) carry   *)
(* no 'portal_url' and empty categories and keywords; the dicts of         *)
(* _parse_bidsandtenders_element (main.py 1509-1591) carry 'portal_url',   *)
(* no posted_date and empty categories and keywords.                       *)
(***************************************************************************)
StampsPosted(portal) == portal \in {"BC Bid", "SaskTenders", "Manitoba Tenders"}

HasPortalUrl(portal) == portal \notin {"SaskTenders", "Manitoba Tenders"}

ExtractsTaxonomy(portal) == portal \in {"CanadaBuys", "BC Bid"}

Accepts(portal, row) == portal = "CanadaBuys" => row.tender_id # ""

BuildTender(portal, row, clock) ==
    [tender_id |-> row.tender_id, portal |-> portal, title |-> row.title,
     value |-> 0, closing_date |-> row.closing_date,
     posted_date |-> IF StampsPosted(portal) THEN clock ELSE NoDate,
     categories |-> IF ExtractsTaxonomy(portal)
                    THEN ExtractCategories(row.terms) ELSE <<>>,
     keywords |-> IF ExtractsTaxonomy(portal)
                  THEN ExtractKeywords(row.terms) ELSE <<>>,
     has_portal_url |-> HasPortalUrl(portal)]

(* Portals whose dicts reach _process_tenders on the Celery path: the     *)
(* 'api' portal and the 'bidsandtenders' portals (tasks.py 197-233).  The  *)
(* statically scraped portals never get that far: with requires_selenium   *)
(* the call scanner.selenium.create_driver() (tasks.py 249) raises, since  *)
(* SeleniumGridDriver (main.py 383-489) has no such method, and without it *)
(* the scraper is handed the database session (tasks.py 262) and returns   *)
(* no dict.  The single operations are taken with the dicts of the 'api'  *)
(* portal; the cycles below also scan a 'bidsandtenders' portal.           *)
(* MainPortals: portals scan_all_portals reaches (main.py 1731-1773).      *)
TasksPortals == {"CanadaBuys"}

MainPortals == {"CanadaBuys", "BC Bid"}

(***************************************************************************)
(* State that the specification of single operations does not use.         *)
(***************************************************************************)
IdleSrc == <<>>

IdleCyc == [kind |-> "none"]

IdleWr == <<>>

IdlePair == <<>>

IdleSrch == <<>>

IdleDrv == <<>>

IdleSess == <<>>

IdleExt == <<>>

IdleMat == <<>>

IdleCasc == <<>>

Others == <<src, cyc, wr, pair, srch, drv, sess, ext, mat, casc>>

(***************************************************************************)
(* last records the latest call: the operation, the key of the dict it     *)
(* was given, the value save_tender_to_db returned (was_new), the return   *)
(* statement it left by (effect), and the counter the caller then          *)
(* incremented (tasks.py 165-170, main.py 1788-1792).                      *)
(***************************************************************************)
CounterOf(was_new) == IF was_new THEN "new" ELSE "updated"

LastOf(op, t, ret, effect) ==
    [op |-> op, portal |-> t.portal, tender_id |-> t.tender_id,
     ret |-> ret, effect |-> effect,
     counted |-> IF effect = "raised" THEN "none" ELSE CounterOf(ret),
     deactivated |-> 0, deleted |-> 0]

LastOp(op) ==
    [op |-> op, portal |-> "", tender_id |-> "", ret |-> FALSE,
     effect |-> "none", counted |-> "none", deactivated |-> 0, deleted |-> 0]

(* The counts the sweep logs and clean_expired_tenders returns. *)
LastSweep(op, table, clock) ==
    [LastOp(op) EXCEPT
        !.deactivated = Cardinality({r \in table : r.is_active /\ Expired(r, clock)}),
        !.deleted = IF op = "clean"
                    THEN Cardinality(MarkExpired(table, clock))
                            - Cardinality(CleanExpiredTenders(table, clock))
                    ELSE 0]

(***************************************************************************)
(* Spec: single operations on the table, in any order.                     *)
(***************************************************************************)
Init ==
    /\ db = {}
    /\ now = 0
    /\ ticks = 0
    /\ hashSeed \in Seeds
    /\ last = LastOp("init")
    /\ srch = IdleSrch /\ drv = IdleDrv /\ sess = IdleSess
    /\ ext = IdleExt /\ mat = IdleMat /\ casc = IdleCasc
    /\ src = IdleSrc
    /\ cyc = IdleCyc
    /\ wr = IdleWr
    /\ pair = IdlePair


Tick ==
    /\ ticks < MaxTicks
    /\ now' = now + TickStep
    /\ ticks' = ticks + 1
    /\ last' = LastOp("tick")
    /\ UNCHANGED <<db, hashSeed, src, cyc, wr, pair, srch, drv, sess, ext, mat, casc>>

(* One turn of the loop of _process_tenders (tasks.py 159-170). *)
TasksProcess ==
    \E portal \in TasksPortals, row \in TasksRows :
        /\ Accepts(portal, row)
        /\ LET c == BuildTender(portal, row, now)
           IN IF PriorityRaises(c)
              THEN /\ last' = LastOf("tasks", c, FALSE, "raised")
                   /\ db' = db
              ELSE LET t == Augment(c, hashSeed, now)
                       out == ModelsSave(db, t, now)
                   IN /\ db' = out.db
                      /\ last' = LastOf("tasks", t, out.ret, out.effect)
        /\ UNCHANGED <<now, ticks, hashSeed, src, cyc, wr, pair, srch, drv, sess, ext, mat, casc>>

(* One turn of the save loop of scan_all_portals (main.py 1781-1792). *)
MainProcess ==
    \E portal \in MainPortals, row \in MainRows :
        /\ Accepts(portal, row)
        /\ LET c == BuildTender(portal, row, now)
           IN IF PriorityRaises(c)
              THEN /\ last' = LastOf("main", c, FALSE, "raised")
                   /\ db' = db
              ELSE LET t == Augment(c, hashSeed, now)
                       out == MainSave(db, t, now)
                   IN /\ db' = out.db
                      /\ last' = LastOf("main", t, out.ret, out.effect)
        /\ UNCHANGED <<now, ticks, hashSeed, src, cyc, wr, pair, srch, drv, sess, ext, mat, casc>>

(* The sweep at the end of scan_all_portals (main.py 1794-1799). *)
MainSweep ==
    /\ db' = MarkExpired(db, now)
    /\ last' = LastSweep("sweep", db, now)
    /\ UNCHANGED <<now, ticks, hashSeed, src, cyc, wr, pair, srch, drv, sess, ext, mat, casc>>

(* The scheduled task clean_expired_tenders (tasks.py 344-367). *)
CleanExpired ==
    /\ db' = CleanExpiredTenders(db, now)
    /\ last' = LastSweep("clean", db, now)
    /\ UNCHANGED <<now, ticks, hashSeed, src, cyc, wr, pair, srch, drv, sess, ext, mat, casc>>

Next == Tick \/ TasksProcess \/ MainProcess \/ MainSweep \/ CleanExpired

Spec == Init /\ [][Next]_vars

TypeOK ==
    /\ \A r \in db : r.tender_id \in TenderIds /\ r.portal \in Portals
    /\ now >= 0

(***************************************************************************)
(* Properties of the single operations.                                    *)
(***************************************************************************)
IsSave(l) == l.op \in {"tasks", "main"}

(* The columns of a row agree with the dump its hash was taken from. *)
RowMatchesHash(r) ==
    /\ r.categories = r.hash[1][2]
    /\ r.closing_date = r.hash[2][2]
    /\ r.keywords = r.hash[3][2]
    /\ r.matching_courses = r.hash[4][2]
    /\ r.portal = r.hash[5][2]
    /\ r.priority = r.hash[8][2]
    /\ r.tender_id = r.hash[9][2]
    /\ r.title = r.hash[10][2]
    /\ r.value = r.hash[11][2]

(* C1 as stated: the caller reports each of the three outcomes as what it
   is, 'new', 'updated' or 'unchanged'. *)
C1_ThreeOutcomesReported ==
    IsSave(last) /\ last.effect \in {"new", "updated", "unchanged"}
        => last.counted = last.effect

(* C1 amended: save_tender_to_db returns True exactly when it inserted one
   row for an absent tender_id; it returns False when it overwrote the
   columns, hash and last_updated of the stored row (hash differs), and
   also when it wrote nothing (same hash, skipped or failed save); the
   caller counts every False as 'updated'. *)
C1_SaveOutcomes ==
    [][IsSave(last') =>
        LET old == Lookup(db, last'.tender_id)
            new == Lookup(db', last'.tender_id)
        IN /\ last'.ret <=> (old = NoRec /\ new # NoRec)
           /\ last'.ret <=> last'.effect = "new"
           /\ last'.ret => /\ db' = db \cup {new}
                           /\ new.portal = last'.portal
                           /\ new.is_active /\ new.last_updated = now
                           /\ RowMatchesHash(new)
           /\ last'.effect = "updated" =>
                /\ old # NoRec /\ new # NoRec
                /\ db' \ {new} = db \ {old}
                /\ new.hash # old.hash
                /\ new.last_updated = now
                /\ RowMatchesHash(new)
                /\ new.id = old.id /\ new.is_active = old.is_active
           /\ last'.effect \notin {"new", "updated"} => db' = db
           /\ last'.effect = "unchanged" => old # NoRec
           /\ (~last'.ret /\ last'.effect # "raised") => last'.counted = "updated"
           /\ last'.ret => last'.counted = "new"]_vars

(* C1 witness: with two rows stored, a save has overwritten one of them
   and the caller counted it as 'updated'. *)
C1_Witness ==
    /\ IsSave(last) /\ last.effect = "updated" /\ last.counted = "updated"
    /\ Cardinality(db) = 2

(* C3 as stated: saving a dict never touches the row of a dict of another
   portal that has the same tenderId. *)
C3_OtherPortalUntouched ==
    [][IsSave(last') =>
        \A r \in db :
            (r.tender_id = last'.tender_id /\ r.portal # last'.portal)
                => r \in db']_vars

(* C8 as stated: no operation removes a stored row. *)
C8_NeverRemoved ==
    [][\A r \in db : \E q \in db' : q.id = r.id]_vars

(* C8 amended: save_tender_to_db and the sweep of scan_all_portals never
   remove a row; clean_expired_tenders removes exactly the rows that,
   after its own deactivation step, are inactive with a closing_date more
   than RetentionDays before now. *)
C8_OnlyRetentionRemoves ==
    [][/\ last'.op # "clean" => \A r \in db : \E q \in db' : q.id = r.id
       /\ last'.op = "clean" =>
            \A r \in db :
                (\E q \in db' : q.id = r.id)
                    <=> ~Expired(r, now - RetentionDays)]_vars

(* C8 witness: clean_expired_tenders has run on a day when a stored row
   was more than RetentionDays past its closing date, and the row is gone. *)
C8_Witness ==
    /\ last.op = "clean" /\ now > RetentionDays
    /\ last.deleted = 1 /\ db = {}

(***************************************************************************)
(* FairSpec: the single operations, with the Celery beat entry             *)
(* 'clean-expired-tenders' (tasks.py 126-129) firing again and again.      *)
(***************************************************************************)
FairSpec == Spec /\ WF_vars(CleanExpired)

ActiveExpired(i) ==
    \E r \in db : r.tender_id = i /\ r.is_active /\ Expired(r, now)

(* C6: a stored row that is active and past its closing date is eventually
   swept (inactive, or removed by the same task, or given another closing
   date by a differing payload), and no save ever turns is_active of a
   stored inactive row back to true. *)
C6_MonotonicInactivation ==
    /\ \A i \in TenderIds : ActiveExpired(i) ~> ~ActiveExpired(i)
    /\ [][\A r \in db, q \in db' :
            (q.id = r.id /\ ~r.is_active) => ~q.is_active]_vars

(* C6 witness: a row that the sweep made inactive has since been saved
   again with a differing hash, and is still inactive. *)
C6_Witness ==
    /\ IsSave(last) /\ last.effect = "updated"
    /\ \E r \in db : /\ r.tender_id = last.tender_id
                     /\ ~r.is_active /\ Expired(r, now)

(***************************************************************************)
(* SpecCycle: whole scan cycles over portals whose content does not        *)
(* change.  A Celery cycle is scan_specific_portals_task (tasks.py         *)
(* 283-303) running _execute_scans_async (180-280) and, per portal,        *)
(* _process_tenders (149-177); the other cycle is scan_all_portals         *)
(* (main.py 1723-1807).  The clock moves between cycles only.              *)
(***************************************************************************)
PortalRows(portal) ==
    IF portal = "CanadaBuys"
    THEN {Row("T1", "a", 10), Row("T1", "b", AwareDate)}
    ELSE IF portal = "BC Bid"
         THEN {Row("T1", "b", 10), Row("", "b", NoDate)}
         ELSE {Row("T2", "b", NoDate)}

(***************************************************************************)
(* The source ids a Celery cycle can be asked for, with what               *)
(* PORTAL_CONFIGS (main.py 139-382) and SCRAPER_DISPATCHER (tasks.py       *)
(* 42-87) hold for them.  "nosuch" is an id without configuration.         *)
(***************************************************************************)
PortalIds == {"canadabuys", "sasktenders", "bcbid", "manitoba", "ontario", "nosuch"}

InConfigs(id) == id # "nosuch"

PortalName(id) ==
    CASE id = "canadabuys" -> "CanadaBuys"
      [] id = "sasktenders" -> "SaskTenders"
      [] id = "bcbid" -> "BC Bid"
      [] id = "manitoba" -> "Manitoba Tenders"
      [] id = "ontario" -> "Ontario Tenders Portal"
      [] OTHER -> ""

PortalType(id) ==
    CASE id = "canadabuys" -> "api"
      [] id = "ontario" -> "bidsandtenders"
      [] OTHER -> "scrape"

RequiresSelenium(id) == id \in {"sasktenders", "bcbid", "ontario"}

(* The dispatcher entry is a function ('sasktenders', 'manitoba',
   'ontario') or a string that is not itself a key of the dispatcher
   ('canadabuys': 'scan_canadabuys', 'bcbid': 'scan_bcbid'), which line
   236 leaves as it is and line 239 finds not callable. *)
DispatcherCallable(id) == id \in {"sasktenders", "manitoba", "ontario"}

(* The branch of the portal loop an id takes (tasks.py 187-262). *)
Dispatch(id) ==
    IF ~InConfigs(id) THEN "skipped"
    ELSE IF PortalType(id) \in {"api", "bidsandtenders"} THEN PortalType(id)
    ELSE IF ~DispatcherCallable(id) THEN "skipped"
    ELSE IF RequiresSelenium(id) THEN "create_driver" ELSE "session"

SeqsUpTo(S, n) == UNION {[1..k -> S] : k \in 0..n}

(* What the portals show during a behaviour: up to MaxBatch rows each. *)
Contents ==
    {[q \in Portals |-> IF q = "CanadaBuys" THEN a
                        ELSE IF q = "BC Bid" THEN b ELSE s] :
        a \in SeqsUpTo(PortalRows("CanadaBuys"), MaxBatch),
        b \in SeqsUpTo(PortalRows("BC Bid"), MaxBatch),
        s \in SeqsUpTo(PortalRows("Ontario Tenders Portal"), MaxBatch)}

(* The ids a Celery cycle is asked for, in the order of the request. *)
TasksPortalList ==
    <<"canadabuys", "sasktenders", "bcbid", "manitoba", "nosuch", "ontario">>

MainPortalList == <<"CanadaBuys", "BC Bid">>

(* What an adapter returns for a portal: one dict per row it accepts. *)
ScanPortal(content, portal, clock) ==
    LET ok == [i \in 1..Len(content[portal]) |-> Accepts(portal, content[portal][i])]
        tenders == [i \in 1..Len(content[portal]) |->
                        BuildTender(portal, content[portal][i], clock)]
        idxs == {i \in 1..Len(content[portal]) : ok[i]}
        Nth(k) == CHOOSE i \in idxs : Cardinality({j \in idxs : j < i}) = k - 1
    IN [k \in 1..Cardinality(idxs) |-> tenders[Nth(k)]]

ZeroCount == [q \in Portals |-> 0]

HashesOf(table) == {<<r.tender_id, r.hash>> : r \in table}

NewCycle(kind, c, table) ==
    [kind |-> kind, pc |-> "scan", queue |-> <<>>, portal |-> "", id |-> "",
     batch |-> <<>>, idx |-> 1, new |-> 0, updated |-> 0,
     scanned |-> <<>>, errors |-> <<>>, unavailable |-> {},
     sweeps |-> 0, aborted |-> FALSE,
     offered |-> ZeroCount, attempted |-> ZeroCount, raisedIn |-> {},
     n |-> c.n, prevKind |-> c.kind, startHashes |-> HashesOf(table)]

CycleInit ==
    /\ db = {}
    /\ now = 0
    /\ ticks = 0
    /\ hashSeed \in Seeds
    /\ last = LastOp("init")
    /\ srch = IdleSrch /\ drv = IdleDrv /\ sess = IdleSess
    /\ ext = IdleExt /\ mat = IdleMat /\ casc = IdleCasc
    /\ src \in Contents
    /\ cyc = [NewCycle("none", [n |-> 0, kind |-> "none"], {}) EXCEPT !.pc = "idle"]
    /\ wr = IdleWr
    /\ pair = IdlePair

Idle == cyc.pc \in {"idle", "done"}

CycleTick ==
    /\ Idle
    /\ ticks < MaxTicks
    /\ now' = now + TickStep
    /\ ticks' = ticks + 1
    /\ UNCHANGED <<db, hashSeed, last, src, cyc, wr, pair, srch, drv, sess, ext, mat, casc>>

(* scan_specific_portals_task is started (tasks.py 284-296). *)
TasksStart ==
    /\ Idle
    /\ cyc.n < MaxCycles
    /\ cyc' = [NewCycle("tasks", cyc, db) EXCEPT !.queue = TasksPortalList]
    /\ UNCHANGED <<db, now, ticks, hashSeed, last, src, wr, pair, srch, drv, sess, ext, mat, casc>>

(* End of _process_tenders and of the turn of the portal loop
   (tasks.py 172-177 and 204-207, 266-269): the portal is appended to
   results['scanned'] and the loop goes to the next portal. *)
PortalDoneUnlisted(c) ==
    [c EXCEPT !.pc = "scan", !.queue = Tail(c.queue)]

PortalDone(c) ==
    [c EXCEPT !.pc = "scan", !.scanned = Append(c.scanned, c.id),
              !.queue = Tail(c.queue)]

(* The except clause of the portal loop (tasks.py 208-213, 227-232,
   271-276): an entry in results['errors'], and the loop goes on. *)
PortalFailed(c, error) ==
    [c EXCEPT !.pc = "scan", !.queue = Tail(c.queue),
              !.errors = Append(c.errors, [portal |-> c.portal, error |-> error])]

(* "continue" without an entry in the results (tasks.py 188-190, 239-241). *)
PortalSkipped(c) == [c EXCEPT !.pc = "scan", !.queue = Tail(c.queue)]

(* What the adapter of a portal hands back to the loop.  The api scan
   needs no browser.  scan_bidsandtenders_portal (main.py 1420-1507)
   asks for its own session with get_driver(), inside its try block:
   without a session it logs and returns the empty list.  A statically
   scraped portal that is not requires_selenium is called with the
   database session (tasks.py 262); "async with session.get(url)"
   raises inside the scraper's try block and the scraper returns the
   empty list (scrapers.py 170-204). *)
AdapterCall(content, id, grid, clock) ==
    IF Dispatch(id) = "api" THEN ScanPortal(content, PortalName(id), clock)
    ELSE IF Dispatch(id) = "bidsandtenders" /\ grid
         THEN ScanPortal(content, PortalName(id), clock)
         ELSE <<>>

(* One portal of the loop of _execute_scans_async: the adapter call
   (tasks.py 201, 258-262) and "if tenders: _process_tenders(...)". *)
TasksScan ==
    /\ cyc.kind = "tasks" /\ cyc.pc = "scan" /\ cyc.queue # <<>>
    /\ \E grid \in BOOLEAN :
        LET id == Head(cyc.queue)
            portal == PortalName(id)
            tenders == AdapterCall(src, id, grid, now)
            at == [cyc EXCEPT !.id = id, !.portal = portal, !.batch = <<>>,
                              !.idx = 1]
            c == [at EXCEPT !.batch = tenders,
                            !.offered[portal] = Len(tenders),
                            !.unavailable =
                                IF RequiresSelenium(id) /\ ~grid
                                THEN @ \cup {id} ELSE @]
        IN /\ Dispatch(id) \in {"skipped", "create_driver", "session", "api"}
                => grid
           /\ cyc' = CASE Dispatch(id) = "skipped" -> PortalSkipped(at)
                       [] Dispatch(id) = "create_driver" ->
                            PortalFailed(at, "AttributeError")
                       [] OTHER -> IF tenders = <<>> THEN PortalDone(c)
                                   ELSE [c EXCEPT !.pc = "process"]
    /\ UNCHANGED <<db, now, ticks, hashSeed, last, src, wr, pair, srch, drv, sess, ext, mat, casc>>

(* One turn of the loop of _process_tenders (tasks.py 159-170); an
   exception ends the batch (174-175). *)
TasksProcessOne ==
    /\ cyc.kind = "tasks" /\ cyc.pc = "process"
    /\ LET c == cyc.batch[cyc.idx]
           tried == [cyc EXCEPT !.attempted[cyc.portal] = @ + 1]
       IN IF PriorityRaises(c)
          THEN /\ db' = db
               /\ cyc' = PortalDone([tried EXCEPT !.raisedIn = @ \cup {cyc.portal}])
          ELSE LET out == ModelsSave(db, Augment(c, hashSeed, now), now)
                   counted == [tried EXCEPT
                                 !.new = IF out.ret THEN @ + 1 ELSE @,
                                 !.updated = IF out.ret THEN @ ELSE @ + 1,
                                 !.idx = @ + 1]
               IN /\ db' = out.db
                  /\ cyc' = IF cyc.idx = Len(cyc.batch)
                            THEN PortalDone(counted) ELSE counted
    /\ UNCHANGED <<now, ticks, hashSeed, last, src, wr, pair, srch, drv, sess, ext, mat, casc>>

(* The portal loop is over: driver.quit(), session.close(), the task
   returns results (tasks.py 278-280, 300-303). *)
TasksEnd ==
    /\ cyc.kind = "tasks" /\ cyc.pc = "scan" /\ cyc.queue = <<>>
    /\ cyc' = [cyc EXCEPT !.pc = "done", !.n = @ + 1]
    /\ UNCHANGED <<db, now, ticks, hashSeed, last, src, wr, pair, srch, drv, sess, ext, mat, casc>>

(* scan_all_portals gathers all_tenders from every scanner (main.py
   1727-1773) and enters the save loop. *)
MainScan ==
    /\ Idle
    /\ cyc.n < MaxCycles
    /\ LET first == ScanPortal(src, MainPortalList[1], now)
           second == ScanPortal(src, MainPortalList[2], now)
       IN cyc' = [NewCycle("main", cyc, db) EXCEPT
                    !.pc = "process", !.batch = first \o second,
                    !.offered[MainPortalList[1]] = Len(first),
                    !.offered[MainPortalList[2]] = Len(second)]
    /\ UNCHANGED <<db, now, ticks, hashSeed, last, src, wr, pair, srch, drv, sess, ext, mat, casc>>

(* One turn of the save loop (main.py 1781-1792); an exception leaves
   the try block (1804-1807), so neither the rest of the loop nor the
   sweep runs. *)
MainProcessOne ==
    /\ cyc.kind = "main" /\ cyc.pc = "process" /\ cyc.idx <= Len(cyc.batch)
    /\ LET c == cyc.batch[cyc.idx]
           tried == [cyc EXCEPT !.attempted[c.portal] = @ + 1]
       IN IF PriorityRaises(c)
          THEN /\ db' = db
               /\ cyc' = [tried EXCEPT !.pc = "done", !.aborted = TRUE,
                                       !.raisedIn = @ \cup {c.portal},
                                       !.n = @ + 1]
          ELSE LET out == MainSave(db, Augment(c, hashSeed, now), now)
               IN /\ db' = out.db
                  /\ cyc' = [tried EXCEPT
                                !.new = IF out.ret THEN @ + 1 ELSE @,
                                !.updated = IF out.ret THEN @ ELSE @ + 1,
                                !.idx = @ + 1]
    /\ UNCHANGED <<now, ticks, hashSeed, last, src, wr, pair, srch, drv, sess, ext, mat, casc>>

(* The sweep after the loop, commit, close and the final log line
   (main.py 1794-1802). *)
MainSweepEnd ==
    /\ cyc.kind = "main" /\ cyc.pc = "process" /\ cyc.idx > Len(cyc.batch)
    /\ db' = MarkExpired(db, now)
    /\ cyc' = [cyc EXCEPT !.pc = "done", !.sweeps = @ + 1, !.n = @ + 1]
    /\ UNCHANGED <<now, ticks, hashSeed, last, src, wr, pair, srch, drv, sess, ext, mat, casc>>

CycleNext ==
    \/ CycleTick
    \/ TasksStart \/ TasksScan \/ TasksProcessOne \/ TasksEnd
    \/ MainScan \/ MainProcessOne \/ MainSweepEnd

SpecCycle == CycleInit /\ [][CycleNext]_vars

(***************************************************************************)
(* Properties of the scan cycles.                                          *)
(***************************************************************************)
CycleOver == cyc.pc = "done"

(* C2 as stated: a second pass over unchanged portals counts no dict as
   new and none as updated, and leaves every stored hash as it was. *)
C2_SecondPassIdle ==
    (CycleOver /\ cyc.n >= 2 /\ cyc.prevKind = cyc.kind)
        => /\ cyc.new = 0
           /\ cyc.updated = 0
           /\ HashesOf(db) = cyc.startHashes

(* A batch has been run through its save loop without an exception. *)
BatchProcessed ==
    \/ /\ cyc.kind = "tasks" /\ cyc.pc \in {"scan", "done"}
       /\ cyc.batch # <<>> /\ cyc.portal \notin cyc.raisedIn
    \/ cyc.kind = "main" /\ CycleOver /\ ~cyc.aborted

(* C4 as stated: after a batch with several entries of one
   (portal, tenderId) has been processed, the table holds exactly one row
   with that key. *)
C4_DuplicatesStoredOnce ==
    BatchProcessed =>
        \A i, j \in 1..Len(cyc.batch) :
            (/\ i < j
             /\ cyc.batch[i].tender_id # ""
             /\ cyc.batch[i].tender_id = cyc.batch[j].tender_id
             /\ cyc.batch[i].portal = cyc.batch[j].portal)
                => Cardinality({r \in db : /\ r.tender_id = cyc.batch[i].tender_id
                                           /\ r.portal = cyc.batch[i].portal}) = 1

(* C7 as stated: every cycle runs the sweep exactly once, after its saves,
   and when the cycle has ended no stored row is active and past its
   closing date. *)
C7_SweepOncePerCycle ==
    CycleOver =>
        /\ cyc.sweeps = 1
        /\ \A r \in db : ~(r.is_active /\ Expired(r, now))

(* C9 as stated: when the batch of one source fails part-way, the dicts
   of every other source of the cycle are still applied. *)
C9_OtherSourcesApplied ==
    CycleOver =>
        \A q \in Portals :
            q \notin cyc.raisedIn => cyc.attempted[q] = cyc.offered[q]

(* The portals with an entry in results['errors']. *)
ErrorPortals(c) == {c.errors[i].portal : i \in 1..Len(c.errors)}

(* C11 as stated: an exception raised while a source is scanned or its
   dicts are saved is recorded as an error of that source, and the cycle
   is not aborted by it: every source after it is still gone through. *)
C11_FailureRecordedCycleGoesOn ==
    CycleOver =>
        /\ ~cyc.aborted
        /\ cyc.raisedIn \subseteq ErrorPortals(cyc)

(* The requested ids of a Celery cycle and the two statuses its results
   can give an id: listed in results['scanned'], or its portal name listed
   in results['errors'].  The results have no status for a timeout. *)
Requested == Range(TasksPortalList)

Succeeded(c, id) == id \in Range(c.scanned)

Failed(c, id) == InConfigs(id) /\ PortalName(id) \in ErrorPortals(c)

TasksOver == CycleOver /\ cyc.kind = "tasks"

(* C12 as stated: when the cycle returns, every requested id has exactly
   one status in the results: none is left out and none is both scanned
   and failed. *)
C12_EveryRequestedSourceReported ==
    TasksOver =>
        \A id \in Requested :
            /\ Succeeded(cyc, id) \/ Failed(cyc, id)
            /\ ~(Succeeded(cyc, id) /\ Failed(cyc, id))

(* C13 as stated: a browser-backed source whose session could not be
   created is reported as failed, with an error entry, and not as
   succeeded; the cycle goes on to its end. *)
C13_UnavailableSessionReported ==
    TasksOver =>
        \A id \in cyc.unavailable :
            Failed(cyc, id) /\ ~Succeeded(cyc, id)

(* The adapter of the portal at the head of the queue is called and
   hands back the empty list: the loop stays at "scan". *)
ZeroRecordsStep ==
    /\ cyc.kind = "tasks" /\ cyc.pc = "scan" /\ cyc.queue # <<>>
    /\ Dispatch(Head(cyc.queue)) \in {"api", "bidsandtenders", "session"}
    /\ cyc'.pc = "scan"

(* C15: a source whose adapter call returns zero records is added to the
   scanned sources, gets no error entry, and changes no stored row and no
   counter. *)
C15_ZeroRecordsSucceed ==
    [][ZeroRecordsStep =>
        /\ cyc'.scanned = Append(cyc.scanned, Head(cyc.queue))
        /\ cyc'.errors = cyc.errors
        /\ cyc'.queue = Tail(cyc.queue)
        /\ cyc'.new = cyc.new /\ cyc'.updated = cyc.updated
        /\ db' = db]_vars

(* C15 witness: with rows stored, the scan of CanadaBuys has come back
   empty and the portal is listed as scanned and not as failed. *)
C15_Witness ==
    /\ cyc.kind = "tasks" /\ cyc.pc = "scan"
    /\ cyc.id = "canadabuys" /\ cyc.batch = <<>>
    /\ Succeeded(cyc, "canadabuys") /\ ~Failed(cyc, "canadabuys")
    /\ db # {}

(***************************************************************************)
(* SpecPair: save_tender_to_db applied to two dicts, one after the other.  *)
(* The two dicts agree in every field and list the same categories and the *)
(* same keywords, in any two orders.                                       *)
(***************************************************************************)
Orderings(S) ==
    {s \in [1..Cardinality(S) -> S] : Range(s) = S}

Lists(S) == UNION {Orderings(T) : T \in SUBSET S}

PairKeywords == {"k1", "k2"}

PairClosings == {NoDate, 10}

SavePaths == {"models", "main"}

Candidate(portal, title, d, cats, kws) ==
    [tender_id |-> "T1", portal |-> portal, title |-> title, value |-> 0,
     closing_date |-> d, posted_date |-> NoDate, categories |-> cats,
     keywords |-> kws, has_portal_url |-> TRUE]

SaveOf(path, table, t, clock) ==
    IF path = "models" THEN ModelsSave(table, t, clock)
    ELSE MainSave(table, t, clock)

NoCall == [ret |-> FALSE, effect |-> "none"]

PairOf(path, a, b) ==
    [pc |-> "first", path |-> path, a |-> a, b |-> b, ta |-> NoRec,
     tb |-> NoRec, first |-> NoCall, second |-> NoCall, between |-> {}]

PairInit ==
    /\ db = {}
    /\ now = 0
    /\ ticks = 0
    /\ hashSeed \in Seeds
    /\ last = LastOp("init")
    /\ srch = IdleSrch /\ drv = IdleDrv /\ sess = IdleSess
    /\ ext = IdleExt /\ mat = IdleMat /\ casc = IdleCasc
    /\ src = IdleSrc
    /\ cyc = IdleCyc
    /\ wr = IdleWr
    /\ pair \in {PairOf(path, Candidate(portal, title, d, ca, ka),
                        Candidate(portal, title, d, cb, kb)) :
                    path \in SavePaths, portal \in MainPortals, title \in Titles,
                    d \in PairClosings,
                    ca \in Lists(Categories), cb \in Lists(Categories),
                    ka \in Lists(PairKeywords), kb \in Lists(PairKeywords)}
    /\ Range(pair.a.categories) = Range(pair.b.categories)
    /\ Range(pair.a.keywords) = Range(pair.b.keywords)

(* The first dict goes through the loop body: courses, priority, save. *)
SaveFirst ==
    /\ pair.pc = "first"
    /\ LET t == Augment(pair.a, hashSeed, now)
           out == SaveOf(pair.path, db, t, now)
       IN /\ db' = out.db
          /\ pair' = [pair EXCEPT !.pc = "second", !.ta = t,
                                  !.first = [ret |-> out.ret, effect |-> out.effect],
                                  !.between = out.db]
    /\ UNCHANGED <<now, ticks, hashSeed, last, src, cyc, wr, srch, drv, sess, ext, mat, casc>>

(* Time may pass between the two calls. *)
PairTick ==
    /\ pair.pc = "second"
    /\ ticks < MaxTicks
    /\ now' = now + TickStep
    /\ ticks' = ticks + 1
    /\ UNCHANGED <<db, hashSeed, last, src, cyc, wr, pair, srch, drv, sess, ext, mat, casc>>

SaveSecond ==
    /\ pair.pc = "second"
    /\ LET t == Augment(pair.b, hashSeed, now)
           out == SaveOf(pair.path, db, t, now)
       IN /\ db' = out.db
          /\ pair' = [pair EXCEPT !.pc = "done", !.tb = t,
                                  !.second = [ret |-> out.ret, effect |-> out.effect]]
    /\ UNCHANGED <<now, ticks, hashSeed, last, src, cyc, wr, srch, drv, sess, ext, mat, casc>>

PairNext == SaveFirst \/ PairTick \/ SaveSecond

SpecPair == PairInit /\ [][PairNext]_vars

PairDone == pair.pc = "done"

WithoutLists(t) == [t EXCEPT !.categories = <<>>, !.keywords = <<>>]

(* The two dicts as saved agree in every field, their lists as sets. *)
SameButOrder ==
    /\ WithoutLists(pair.ta) = WithoutLists(pair.tb)
    /\ Range(pair.ta.categories) = Range(pair.tb.categories)
    /\ Range(pair.ta.keywords) = Range(pair.tb.keywords)

(* C5 as stated: two dicts that differ at most in the order of their
   categories and keywords get the same hash, and the second save leaves
   by the no-change return and writes nothing. *)
C5_OrderIndependent ==
    (PairDone /\ SameButOrder)
        => /\ ContentHash(pair.ta) = ContentHash(pair.tb)
           /\ pair.second.effect = "unchanged"
           /\ db = pair.between

(* C5, amended: the hash is a function of the dict as dumped, the lists in
   the order given.  Two dicts get the same hash exactly when they are
   equal field by field and element by element; then the second save
   returns False by the no-change return and writes nothing.  Otherwise,
   and in particular when only the order of a list differs, the second
   save takes the update branch: it returns False and the row now carries
   the second dict's hash and lists. *)
C5_HashFollowsListOrder ==
    PairDone =>
        /\ pair.first.effect = "new" /\ pair.first.ret
        /\ (ContentHash(pair.ta) = ContentHash(pair.tb)) <=> (pair.ta = pair.tb)
        /\ (pair.ta = pair.tb)
              => /\ pair.second.effect = "unchanged"
                 /\ ~pair.second.ret
                 /\ db = pair.between
        /\ (pair.ta # pair.tb)
              => /\ pair.second.effect = "updated"
                 /\ ~pair.second.ret
                 /\ db # pair.between
                 /\ \A r \in db :
                       /\ r.hash = ContentHash(pair.tb)
                       /\ r.categories = pair.tb.categories
                       /\ r.keywords = pair.tb.keywords

C5_Witness ==
    /\ PairDone
    /\ SameButOrder
    /\ pair.ta.categories # pair.tb.categories
    /\ pair.second.effect = "updated"
    /\ \E r \in db : r.categories = pair.tb.categories

(***************************************************************************)
(* SpecConc: two sessions run save_tender_to_db for the same tender_id at  *)
(* the same time: the scheduler jobs and the start-up scan of lifespan     *)
(* (main.py 1810-1828) or two Celery workers.  Each call is two steps: the *)
(* query (models.py 60-62, main.py 1676) and the write with its commit.    *)
(* The function has no loop: a commit that fails ends in the except        *)
(* clause, which rolls back and returns False.                             *)
(***************************************************************************)
Writers == {1, 2}

ConcCandidates ==
    {Candidate("CanadaBuys", title, d, <<>>, <<>>) :
        title \in Titles, d \in PairClosings}

WriterOf(path, c) ==
    [pc |-> "start", path |-> path, c |-> c, t |-> NoRec, seen |-> NoRec,
     ret |-> FALSE, effect |-> "none", commits |-> 0, raised |-> FALSE]

ConcInit ==
    /\ now = 0
    /\ ticks = 0
    /\ hashSeed \in Seeds
    /\ db \in {{}} \cup {ModelsSave({}, Augment(c, hashSeed, 0), 0).db :
                            c \in ConcCandidates}
    /\ last = LastOp("init")
    /\ srch = IdleSrch /\ drv = IdleDrv /\ sess = IdleSess
    /\ ext = IdleExt /\ mat = IdleMat /\ casc = IdleCasc
    /\ src = IdleSrc
    /\ cyc = IdleCyc
    /\ pair = IdlePair
    /\ wr \in [Writers -> {WriterOf(path, c) :
                              path \in SavePaths, c \in ConcCandidates}]

(* The loop body up to the query: courses, priority, hash, SELECT. *)
WriterQuery(w) ==
    /\ wr[w].pc = "start"
    /\ LET t == Augment(wr[w].c, hashSeed, now)
       IN wr' = [wr EXCEPT ![w].pc = "queried", ![w].t = t,
                           ![w].seen = Lookup(db, t.tender_id)]
    /\ UNCHANGED <<db, now, ticks, hashSeed, last, src, cyc, pair, srch, drv, sess, ext, mat, casc>>

(* The rest of the call: the write, its one commit, the return. *)
WriterCommit(w) ==
    /\ wr[w].pc = "queried"
    /\ LET out == IF wr[w].path = "models"
                  THEN ModelsWrite(db, wr[w].seen, wr[w].t, now)
                  ELSE MainWrite(db, wr[w].seen, wr[w].t, now)
       IN /\ db' = out.db
          /\ wr' = [wr EXCEPT ![w].pc = "done", ![w].ret = out.ret,
                              ![w].effect = out.effect,
                              ![w].commits =
                                  IF out.effect = "unchanged" THEN @ ELSE @ + 1,
                              ![w].raised = FALSE]
    /\ UNCHANGED <<now, ticks, hashSeed, last, src, cyc, pair, srch, drv, sess, ext, mat, casc>>

ConcNext == \E w \in Writers : WriterQuery(w) \/ WriterCommit(w)

SpecConc == ConcInit /\ [][ConcNext]_vars

RowsOfKey(tender_id) == {r \in db : r.tender_id = tender_id}

(* Writer w found no row, and its INSERT met the row of the other writer. *)
Conflict(w) ==
    /\ wr[w].pc = "done"
    /\ wr[w].seen = NoRec
    /\ wr[w].effect = "error"

(* C10 as stated: a write that hits the unique-key conflict is retried
   exactly once, so it is sent twice; nothing is raised to the caller and
   the table holds exactly one row of the key. *)
C10_RetriedOnce ==
    \A w \in Writers :
        Conflict(w) => /\ wr[w].commits = 2
                       /\ ~wr[w].raised
                       /\ Cardinality(RowsOfKey(wr[w].t.tender_id)) = 1

(* C10, amended: a write that hits the unique-key conflict is not retried.
   It is sent once, rolled back, and the call returns False without
   raising; the table holds exactly one row of the key, the one the other
   writer inserted.  Whatever the interleaving, once a writer has returned
   the table holds exactly one row of the key. *)
C10_ConflictAbandoned ==
    \A w \in Writers :
        /\ Conflict(w)
              => /\ wr[w].commits = 1
                 /\ ~wr[w].ret
                 /\ ~wr[w].raised
                 /\ \E v \in Writers \ {w} :
                       /\ wr[v].pc = "done" /\ wr[v].effect = "new"
                       /\ RowsOfKey(wr[w].t.tender_id) \subseteq
                              {r \in db : r.hash = ContentHash(wr[v].t)}
        /\ wr[w].pc = "done"
              => Cardinality(RowsOfKey(wr[w].t.tender_id)) = 1

C10_Witness ==
    \E w \in Writers :
        /\ Conflict(w)
        /\ wr[w].commits = 1
        /\ \E v \in Writers \ {w} : wr[v].effect = "new" /\ wr[v].t # wr[w].t
        /\ Cardinality(db) = 1

(***************************************************************************)
(* SpecDriver: one call of create_driver or of stealth_navigation, on the  *)
(* grid manager (selenium_utils.py) or on the local manager               *)
(* (local_selenium.py).  drv.events is the history of the call: what was   *)
(* done in which attempt and how it went.  Whatever the browser or the     *)
(* grid does is an outcome chosen by the environment.                      *)
(***************************************************************************)
MaxAttempts == 3

Managers == {"grid", "local"}

DriverOps == {"create_driver", "stealth_navigation"}

(* The store and the cycles play no part in these calls. *)
Quiet ==
    /\ db = {}
    /\ now = 0
    /\ ticks = 0
    /\ hashSeed = 1
    /\ last = LastOp("init")
    /\ src = IdleSrc
    /\ cyc = IdleCyc
    /\ wr = IdleWr
    /\ pair = IdlePair

Rest == <<db, now, ticks, hashSeed, last, src, cyc, wr, pair>>

DriverCall(op, manager, max_attempts) ==
    [op |-> op, manager |-> manager, max_attempts |-> max_attempts,
     attempt |-> 0, pc |-> "start", events |-> <<>>, ret |-> "pending",
     waits |-> <<>>, open |-> {}]

Event(d, what) == [attempt |-> d.attempt, what |-> what]

Logged(d, what) == [d EXCEPT !.events = Append(@, Event(d, what))]

Returned(d, value) == [d EXCEPT !.pc = "done", !.ret = value]

(* time.sleep(self.retry_delay * (attempt + 1)): d.waits lists the factors
   of retry_delay the call has waited for.  The branch of an unhealthy
   grid sleeps in every attempt (selenium_utils.py 105-107), the except
   clauses only "if attempt < max_attempts - 1" (122-123, 127-128;
   local_selenium.py 98-99). *)
Slept(d) == [d EXCEPT !.waits = Append(@, d.attempt)]

SleptUnlessLast(d) == IF d.attempt < d.max_attempts THEN Slept(d) ELSE d

(* d.open: the attempts whose session, once instantiated, has not been
   quit.  create_driver holds no call of driver.quit(). *)
Opened(d) == [d EXCEPT !.open = @ \cup {d.attempt}]

(* The first thing an attempt of create_driver does: the grid manager
   checks the health of the grid (selenium_utils.py 104), the local
   manager looks for a chromedriver (local_selenium.py 74-84). *)
FirstStepUnchecked(manager) == "instantiate"

FirstStep(manager) == IF manager = "grid" THEN "health" ELSE "service"

(* "for attempt in range(max_attempts)": the next attempt, or the
   statements after the loop (selenium_utils.py 99 and 131-132, 144 and
   176-177; local_selenium.py 63 and 102-103, 115 and 147-148). *)
NextAttempt(d) ==
    IF d.attempt < d.max_attempts
    THEN [d EXCEPT !.attempt = @ + 1,
                   !.pc = IF d.op = "create_driver"
                          THEN FirstStep(d.manager) ELSE "get"]
    ELSE Returned(d, IF d.op = "create_driver" THEN "None" ELSE "False")

(* stealth_navigation leaves the loop with "return True"
   (selenium_utils.py 163, local_selenium.py 134). *)
NavigatedRetrying(d) == NextAttempt(d)

Navigated(d) == Returned(d, "True")

DriverInit ==
    /\ Quiet
    /\ srch = IdleSrch /\ sess = IdleSess
    /\ ext = IdleExt /\ mat = IdleMat /\ casc = IdleCasc
    /\ drv \in {DriverCall(op, manager, m) :
                    op \in DriverOps, manager \in Managers, m \in 0..MaxAttempts}

(* The call enters its loop. *)
DriverBegin ==
    /\ drv.pc = "start"
    /\ drv' = NextAttempt(drv)
    /\ UNCHANGED <<Rest, srch, sess, ext, mat, casc>>

(* check_grid_health() returns a bool and raises nothing
   (selenium_utils.py 32-47); unhealthy: sleep, continue (104-107). *)
CheckHealth ==
    /\ drv.pc = "health"
    /\ \E healthy \in BOOLEAN :
        drv' = IF healthy
               THEN [Logged(drv, "health_ok") EXCEPT !.pc = "instantiate"]
               ELSE NextAttempt(Slept(Logged(drv, "health_bad")))
    /\ UNCHANGED <<Rest, srch, sess, ext, mat, casc>>

(* The local manager takes the first path Service() accepts; without one
   it returns None at once (local_selenium.py 74-84). *)
FindService ==
    /\ drv.pc = "service"
    /\ \E found \in BOOLEAN :
        drv' = IF found
               THEN [Logged(drv, "service_ok") EXCEPT !.pc = "instantiate"]
               ELSE Returned(Logged(drv, "service_none"), "None")
    /\ UNCHANGED <<Rest, srch, sess, ext, mat, casc>>

(* webdriver.Remote(...) or webdriver.Chrome(...); an exception is
   caught, sleep, continue (selenium_utils.py 110-113 and 120-129,
   local_selenium.py 89 and 96-100). *)
Instantiate ==
    /\ drv.pc = "instantiate"
    /\ \E created \in BOOLEAN :
        drv' = IF created
               THEN [Opened(Logged(drv, "instantiate_ok"))
                        EXCEPT !.pc = "smoke"]
               ELSE NextAttempt(SleptUnlessLast(
                        Logged(drv, "instantiate_failed")))
    /\ UNCHANGED <<Rest, srch, sess, ext, mat, casc>>

(* The test navigation to a data: url, then "return driver"
   (selenium_utils.py 116-118, local_selenium.py 92-94); an exception is
   caught like one of the instantiation. *)
SmokeTest ==
    /\ drv.pc = "smoke"
    /\ \E loaded \in BOOLEAN :
        drv' = IF loaded
               THEN Returned(Logged(drv, "smoke_ok"), "driver")
               ELSE NextAttempt(SleptUnlessLast(
                        Logged(drv, "smoke_failed")))
    /\ UNCHANGED <<Rest, srch, sess, ext, mat, casc>>

NavOutcomes == {"ok", "timeout", "error"}

(* driver.get(url) (selenium_utils.py 152, local_selenium.py 123);
   TimeoutException and every other exception: sleep, continue. *)
NavigateGet ==
    /\ drv.pc = "get"
    /\ \E o \in NavOutcomes :
        drv' = IF o = "ok"
               THEN [Logged(drv, "get_ok") EXCEPT !.pc = "ready"]
               ELSE NextAttempt(Logged(drv, IF o = "timeout" THEN "get_timeout"
                                            ELSE "get_failed"))
    /\ UNCHANGED <<Rest, srch, sess, ext, mat, casc>>

(* WebDriverWait(driver, 30).until(readyState == "complete")
   (selenium_utils.py 155-157, local_selenium.py 126-128). *)
WaitReady ==
    /\ drv.pc = "ready"
    /\ \E o \in NavOutcomes :
        drv' = IF o = "ok"
               THEN Navigated(Logged(drv, "ready_ok"))
               ELSE NextAttempt(Logged(drv, IF o = "timeout" THEN "ready_timeout"
                                            ELSE "ready_failed"))
    /\ UNCHANGED <<Rest, srch, sess, ext, mat, casc>>

DriverNext ==
    \/ DriverBegin
    \/ CheckHealth \/ FindService \/ Instantiate \/ SmokeTest
    \/ NavigateGet \/ WaitReady

SpecDriver == DriverInit /\ [][DriverNext]_vars

(***************************************************************************)
(* Properties of create_driver and stealth_navigation.                     *)
(***************************************************************************)
Creating == drv.op = "create_driver"

Navigating == drv.op = "stealth_navigation"

DriverDone == drv.pc = "done"

Instantiations(d) ==
    {i \in 1..Len(d.events) :
        d.events[i].what \in {"instantiate_ok", "instantiate_failed"}}

(* Event i of the call comes after an event "what" of the same attempt. *)
PrecededInAttempt(d, i, what) ==
    \E j \in 1..(i - 1) : /\ d.events[j].attempt = d.events[i].attempt
                          /\ d.events[j].what = what

LastEvent(d) == d.events[Len(d.events)]

(* At most max_attempts attempts; a driver is returned only straight after
   its test navigation has succeeded; the call returns a driver or None. *)
CreateDriverCommon ==
    /\ drv.attempt <= drv.max_attempts
    /\ drv.ret \in {"pending", "driver", "None"}
    /\ DriverDone => drv.ret # "pending"
    /\ drv.ret = "driver" =>
            /\ LastEvent(drv) = Event(drv, "smoke_ok")
            /\ PrecededInAttempt(drv, Len(drv.events), "instantiate_ok")

(* C17 as stated, for both managers: at most max_attempts attempts, a
   session is instantiated only after the health check of that attempt has
   passed, a session is returned only after its test navigation, and None
   is returned once every attempt has failed. *)
C17_HealthCheckedSessions ==
    Creating =>
        /\ CreateDriverCommon
        /\ \A i \in Instantiations(drv) : PrecededInAttempt(drv, i, "health_ok")
        /\ drv.ret = "None" => drv.attempt = drv.max_attempts

(* C17 amended: both managers make at most max_attempts attempts, return
   a session only after its test navigation and never raise.  The grid
   manager instantiates a session only after the health check of that
   attempt has passed and returns None only when all attempts are used
   up.  The local manager makes no health check: it instantiates a session
   as soon as it has a chromedriver service, and returns None at once,
   whatever attempts are left, when it has none. *)
C17_CreateDriverAttempts ==
    Creating =>
        /\ CreateDriverCommon
        /\ drv.manager = "grid" =>
            /\ \A i \in Instantiations(drv) :
                    PrecededInAttempt(drv, i, "health_ok")
            /\ drv.ret = "None" => drv.attempt = drv.max_attempts
        /\ drv.manager = "local" =>
            /\ \A i \in 1..Len(drv.events) : drv.events[i].what # "health_ok"
            /\ \A i \in Instantiations(drv) :
                    PrecededInAttempt(drv, i, "service_ok")
            /\ drv.ret = "None" =>
                    \/ drv.attempt = drv.max_attempts
                    \/ LastEvent(drv) = Event(drv, "service_none")

(* C17 witness: the grid manager has returned a session in its second
   attempt, after a first attempt that found the grid unhealthy. *)
C17_Witness ==
    /\ Creating /\ DriverDone /\ drv.manager = "grid"
    /\ drv.ret = "driver" /\ drv.attempt = 2
    /\ drv.events[1] = [attempt |-> 1, what |-> "health_bad"]

Navigations(d) ==
    {i \in 1..Len(d.events) :
        d.events[i].what \in {"get_ok", "get_timeout", "get_failed"}}

(* C20: stealth_navigation performs at most max_attempts navigations, one
   per attempt; it returns True at the first attempt whose navigation and
   document-ready wait both succeed and navigates no more after that; it
   returns False, without raising, when every attempt has failed or timed
   out. *)
C20_BoundedNavigation ==
    /\ [](Navigating =>
            /\ drv.attempt <= drv.max_attempts
            /\ Cardinality(Navigations(drv)) <= drv.max_attempts
            /\ \A i, j \in Navigations(drv) :
                    drv.events[i].attempt = drv.events[j].attempt => i = j
            /\ drv.ret \in {"pending", "True", "False"}
            /\ DriverDone => drv.ret # "pending"
            /\ \A i \in 1..Len(drv.events) :
                    drv.events[i].what = "ready_ok" =>
                        /\ i = Len(drv.events) /\ drv.ret = "True"
                        /\ drv.events[i - 1] = Event(drv, "get_ok")
            /\ drv.ret = "True" => LastEvent(drv) = Event(drv, "ready_ok")
            /\ drv.ret = "False" =>
                    /\ drv.attempt = drv.max_attempts
                    /\ Cardinality(Navigations(drv)) = drv.max_attempts)
    /\ [][(Navigating /\ DriverDone) => drv' = drv]_vars

(* C20 witness: with three attempts allowed the call has returned True in
   its second attempt, after a first navigation that timed out. *)
C20_Witness ==
    /\ Navigating /\ DriverDone /\ drv.ret = "True"
    /\ drv.max_attempts = 3 /\ drv.attempt = 2
    /\ drv.events[1] = [attempt |-> 1, what |-> "get_timeout"]

(* The attempts of create_driver that have failed so far. *)
FailedAttempts(d) ==
    {d.events[i].attempt : i \in {k \in DOMAIN d.events :
        d.events[k].what \in {"health_bad", "instantiate_failed",
                              "smoke_failed"}}}

(* C25: create_driver waits retry_delay x k after its k-th failed attempt,
   for every k below max_attempts and whatever made the attempt fail, and
   does not wait after the last attempt. *)
C25_LinearBackoffNoLastWait ==
    drv # IdleDrv /\ drv.op = "create_driver"
        => /\ Range(drv.waits)
                = {k \in FailedAttempts(drv) : k < drv.max_attempts}
           /\ Len(drv.waits) = Cardinality(Range(drv.waits))

(* C28: a session create_driver has instantiated is open only while its
   test navigation runs or once it has been returned: none is open when
   the next attempt starts or when None has been returned. *)
C28_NoSessionLeaked ==
    drv # IdleDrv /\ drv.op = "create_driver"
        => \A k \in drv.open :
              /\ k = drv.attempt
              /\ \/ drv.pc = "smoke"
                 \/ drv.pc = "done" /\ drv.ret = "driver"

(***************************************************************************)
(* SpecSearch: one call of an adapter of scrapers.py: MERXScraper.search   *)
(* (868-897) with _perform_search (899-1097), BidsAndTendersScraper.search *)
(* (2632-2670) with _scrape_opportunities (2708-2753) once per search      *)
(* strategy, or scan_manitoba_tenders (170-204).  Whether the source can   *)
(* be reached is fixed for the call; what a page shows, whether a next     *)
(* control is there and whether the grid gives a session are outcomes      *)
(* chosen by the environment.  srch.trail is the history of the            *)
(* pagination in progress, srch.gathered the number of rows put on the     *)
(* list so far, srch.found the length of the list the call returned.       *)
(***************************************************************************)
MaxPages == 2

Strategies == 6

Adapters == {"merx", "bidsandtenders", "manitoba"}

SearchCall(adapter, max_pages, reachable) ==
    [adapter |-> adapter, max_pages |-> max_pages, reachable |-> reachable,
     pc |-> IF adapter = "manitoba" THEN "request" ELSE "setup",
     driver |-> "none", strategy |-> 0, page |-> 0, trail |-> <<>>,
     gathered |-> 0, reached |-> FALSE, timedOut |-> FALSE, ret |-> "pending",
     found |-> 0, expired |-> FALSE]

PageEvent(s, what) == [page |-> s.page, what |-> what]

Trailed(s, what) == [s EXCEPT !.trail = Append(@, PageEvent(s, what))]

(* The call returns its list, or an exception leaves it. *)
SearchReturned(s) == [s EXCEPT !.pc = "done", !.ret = "list", !.found = s.gathered]

SearchRaised(s) == [s EXCEPT !.pc = "done", !.ret = "raised"]

(* The pagination is over.  _perform_search returns all_tenders and
   search returns it (scrapers.py 1097, 884, 896-897);
   _scrape_opportunities returns to the strategy loop of search, which
   goes to the next strategy or quits the driver and returns (2655-2670). *)
EndOfPagination(s) ==
    IF s.adapter = "bidsandtenders" /\ s.strategy < Strategies
    THEN [s EXCEPT !.strategy = @ + 1, !.pc = "navigate", !.page = 0,
                   !.trail = <<>>]
    ELSE SearchReturned(s)

(* "for page in range(1, max_pages + 1)" is entered (1047, 2729). *)
StartPages(s) ==
    IF s.max_pages >= 1
    THEN [s EXCEPT !.page = 1, !.pc = "extract", !.reached = TRUE]
    ELSE EndOfPagination([s EXCEPT !.reached = TRUE])

(* driver.get raises: the except clause of _perform_search (1094-1097)
   or of _scrape_opportunities (2750-2753) logs it and the list gathered
   so far is returned. *)
NavigationErrorRaised(s) == SearchRaised(s)

NavigationError(s) == EndOfPagination(s)

(* After the rows of a page have been put on the list: look for the next
   control unless this was page max_pages (1060, 2738). *)
AfterExtractStoppingOnEmpty(s, o) ==
    IF s.page < s.max_pages /\ o # "empty" THEN [s EXCEPT !.pc = "next"]
    ELSE EndOfPagination(s)

AfterExtract(s, o) ==
    IF s.page < s.max_pages THEN [s EXCEPT !.pc = "next"]
    ELSE EndOfPagination(s)

(* asyncio.wait_for gives up after its 300 seconds: the pending search
   is cancelled and search returns its own all_tenders, which is still
   the empty list (scrapers.py 877 and 884-892). *)
TimedOutKeepingRows(s) ==
    [SearchReturned(s) EXCEPT !.timedOut = TRUE, !.expired = TRUE]

TimedOut(s) ==
    [SearchReturned(s) EXCEPT !.timedOut = TRUE, !.expired = TRUE,
                              !.found = 0]

SearchInit ==
    /\ Quiet
    /\ drv = IdleDrv /\ sess = IdleSess
    /\ ext = IdleExt /\ mat = IdleMat /\ casc = IdleCasc
    /\ srch \in {SearchCall(a, m, r) :
                    a \in Adapters, m \in 0..MaxPages, r \in BOOLEAN}
    /\ srch.adapter = "manitoba" => srch.max_pages = 0

(* The adapter asks for its session.  MERXScraper._setup_driver re-raises
   (1189-1206) and is called outside the try block of search (872-873);
   BidsAndTendersScraper._setup_driver returns None and search returns
   its empty list (2637-2640, 2672-2679). *)
SearchSetup ==
    /\ srch.pc = "setup"
    /\ \E up \in BOOLEAN :
        srch' = IF up
                THEN [srch EXCEPT !.pc = "navigate", !.driver = "up",
                        !.strategy = IF srch.adapter = "bidsandtenders"
                                     THEN 1 ELSE 0]
                ELSE IF srch.adapter = "merx"
                     THEN SearchRaised([srch EXCEPT !.driver = "down"])
                     ELSE SearchReturned([srch EXCEPT !.driver = "down"])
    /\ UNCHANGED <<Rest, drv, sess, ext, mat, casc>>

(* driver.get of the search page (923, 2725).  On MERX the search input
   is looked for next; without one _perform_search returns its empty
   list (983-998). *)
SearchNavigate ==
    /\ srch.pc = "navigate"
    /\ \E input \in BOOLEAN :
        /\ (srch.adapter # "merx" \/ ~srch.reachable) => input
        /\ srch' = IF ~srch.reachable THEN NavigationError(srch)
                   ELSE IF input THEN StartPages(srch)
                   ELSE SearchReturned([srch EXCEPT !.reached = TRUE])
    /\ UNCHANGED <<Rest, drv, sess, ext, mat, casc>>

PageOutcomes == {"rows", "empty", "failed"}

(* _extract_tenders_from_page and extend (1054-1055, 2734-2735); an
   exception ends the pagination (1094-1097, 2746-2748). *)
ExtractPage ==
    /\ srch.pc = "extract"
    /\ \E o \in PageOutcomes :
        LET s == Trailed(srch, IF o = "rows" THEN "extract_rows"
                               ELSE IF o = "empty" THEN "extract_empty"
                               ELSE "extract_failed")
        IN srch' = IF o = "failed" THEN EndOfPagination(s)
                   ELSE AfterExtract([s EXCEPT !.gathered =
                                        IF o = "rows" THEN @ + 1 ELSE @], o)
    /\ UNCHANGED <<Rest, drv, sess, ext, mat, casc>>

NextOutcomes == {"clicked", "none", "failed"}

(* The next control (1061-1092; 2739-2742 with _go_to_next_page,
   3031-3059): clicked, not found or disabled, or an exception. *)
NextPage ==
    /\ srch.pc = "next"
    /\ \E o \in NextOutcomes :
        LET s == Trailed(srch, IF o = "clicked" THEN "next_clicked"
                               ELSE IF o = "none" THEN "next_none"
                               ELSE "next_failed")
        IN srch' = IF o = "clicked"
                   THEN [s EXCEPT !.page = @ + 1, !.pc = "extract"]
                   ELSE EndOfPagination(s)
    /\ UNCHANGED <<Rest, drv, sess, ext, mat, casc>>

(* The timer of MERXScraper.search expires while _perform_search is
   pending. *)
SearchTimeout ==
    /\ srch.adapter = "merx"
    /\ srch.pc \in {"navigate", "extract", "next"}
    /\ ~srch.expired
    /\ srch' = TimedOut(srch)
    /\ UNCHANGED <<Rest, drv, sess, ext, mat, casc>>

(* The timer expires while _handle_cookie_consent, called by
   _perform_search before the search form is looked for (scrapers.py 931),
   waits after its click on a consent button: the CancelledError is raised
   by "await asyncio.sleep(1)" inside a try block whose handler is a bare
   "except: continue" (1235-1244), which catches it.  The search goes on;
   wait_for waits for it and hands on what it returns. *)
SearchTimeoutSwallowed ==
    /\ srch.adapter = "merx"
    /\ srch.pc = "navigate"
    /\ srch.reachable
    /\ ~srch.expired
    /\ srch' = [srch EXCEPT !.expired = TRUE]
    /\ UNCHANGED <<Rest, drv, sess, ext, mat, casc>>

RequestOutcomes == {"rows", "empty", "status", "error"}

(* scan_manitoba_tenders: one GET; a status other than 200 and every
   exception give the empty list (scrapers.py 174-204). *)
ManitobaRequest ==
    /\ srch.pc = "request"
    /\ \E o \in RequestOutcomes :
        /\ srch.reachable <=> o # "error"
        /\ srch' = SearchReturned([srch EXCEPT
                        !.reached = srch.reachable,
                        !.gathered = IF o = "rows" THEN 1 ELSE 0])
    /\ UNCHANGED <<Rest, drv, sess, ext, mat, casc>>

SearchNext ==
    \/ SearchSetup \/ SearchNavigate \/ ExtractPage \/ NextPage
    \/ SearchTimeout \/ SearchTimeoutSwallowed \/ ManitobaRequest

SpecSearch == SearchInit /\ [][SearchNext]_vars

(***************************************************************************)
(* Properties of the adapter calls.                                        *)
(***************************************************************************)
SearchDone == srch.pc = "done"

(* The status the portal loop of a cycle gives a call: an adapter that
   returns is booked under 'scanned', one that raises under 'errors'
   (tasks.py 264-276). *)
Status(s) == IF s.ret = "raised" THEN "failed" ELSE "succeeded"

(* C14 as stated: a source that exceeds its timeout has its call
   cancelled and is marked as timed-out. *)
C14_TimeoutReported ==
    (SearchDone /\ srch.timedOut) => Status(srch) = "timed-out"

(* C14 amended: only MERXScraper.search has a timeout.  When wait_for
   raises its TimeoutError the pending search has been cancelled and does
   nothing more, the rows gathered so far are dropped, and search returns
   the empty list without raising, so that the caller books the source
   like one that was scanned and had no rows. *)
C14_TimeoutReturnsEmpty ==
    /\ [](srch.timedOut =>
            /\ srch.adapter = "merx"
            /\ SearchDone /\ srch.ret = "list" /\ srch.found = 0
            /\ Status(srch) = "succeeded")
    /\ [][srch.timedOut => srch' = srch]_vars

(* C14 witness: a MERX search timed out after it had put rows on its
   list. *)
C14_Witness ==
    /\ SearchDone /\ srch.timedOut /\ srch.adapter = "merx"
    /\ srch.gathered >= 1 /\ srch.found = 0

(* C18 as stated: a source that was reached and had no rows gives the
   empty list without raising, and the call signals a failure exactly
   when the source could not be reached, so that the two can be told
   apart. *)
C18_NavigationFailedSignalled ==
    SearchDone =>
        /\ (srch.reached /\ srch.gathered = 0) =>
                (srch.ret = "list" /\ srch.found = 0)
        /\ srch.ret = "raised" <=> ~srch.reachable

(* C18 amended: a source that was reached and had no rows gives the empty
   list without raising, and so does a source that could not be reached:
   the adapters catch the navigation error and return the list they have,
   so the caller cannot tell the two apart.  An exception leaves an
   adapter call only when MERXScraper.search gets no session, whether or
   not the source can be reached. *)
C18_UnreachableLooksEmpty ==
    SearchDone =>
        /\ (srch.reached /\ srch.gathered = 0) =>
                (srch.ret = "list" /\ srch.found = 0)
        /\ (~srch.reachable /\ srch.driver # "down") =>
                (srch.ret = "list" /\ srch.found = 0 /\ ~srch.reached)
        /\ srch.ret = "raised" <=>
                (srch.adapter = "merx" /\ srch.driver = "down")

(* C18 witness: a MERX search with a session, on a source that cannot be
   reached, has returned the empty list. *)
C18_Witness ==
    /\ SearchDone /\ srch.adapter = "merx" /\ srch.driver = "up"
    /\ ~srch.reachable /\ srch.ret = "list" /\ srch.found = 0
    /\ ~srch.timedOut

Extracts == {"extract_rows", "extract_empty", "extract_failed"}

Nexts == {"next_clicked", "next_none", "next_failed"}

(* The pagination in progress goes page by page: it starts with the
   extraction of page 1, the next control of a page is looked for only
   after the rows of that page have been extracted, page N + 1 is
   extracted only after the next control of page N has been clicked, and
   nothing follows a failed extraction or a next control that was not
   clicked. *)
InSequence(s) ==
    \A i \in 1..Len(s.trail) :
        IF i = 1 THEN s.trail[i].page = 1 /\ s.trail[i].what \in Extracts
        ELSE \/ /\ s.trail[i].what \in Extracts
                /\ s.trail[i - 1].what = "next_clicked"
                /\ s.trail[i].page = s.trail[i - 1].page + 1
             \/ /\ s.trail[i].what \in Nexts
                /\ s.trail[i - 1].what \in {"extract_rows", "extract_empty"}
                /\ s.trail[i].page = s.trail[i - 1].page

(* At most max_pages pages are extracted. *)
WithinCeiling(s) ==
    /\ Cardinality({i \in 1..Len(s.trail) : s.trail[i].what \in Extracts})
            <= s.max_pages
    /\ \A i \in 1..Len(s.trail) : s.trail[i].page <= s.max_pages
    /\ \A i \in 1..Len(s.trail) :
            s.trail[i].what \in Nexts => s.trail[i].page < s.max_pages

(* C19 as stated: pages are processed strictly in sequence, at most
   max_pages of them, and the pagination stops at a page that yields no
   results, when no next control is found, or at the page ceiling. *)
C19_StopsOnEmptyPage ==
    /\ InSequence(srch)
    /\ WithinCeiling(srch)
    /\ \A i \in 1..Len(srch.trail) :
            srch.trail[i].what = "extract_empty" => i = Len(srch.trail)

(* C19 amended: pages are processed strictly in sequence and at most
   max_pages of them are extracted; the pagination stops when no next
   control is found or clicking it fails, when an extraction raises, or
   at the page ceiling.  A page without results does not stop it: below
   the ceiling the next control is looked for after every extraction
   that did not raise. *)
C19_SequentialPagination ==
    /\ InSequence(srch)
    /\ WithinCeiling(srch)
    /\ (srch.trail # <<>> /\ ~srch.timedOut) =>
            LET ev == srch.trail[Len(srch.trail)]
            IN /\ (/\ ev.what \in {"extract_rows", "extract_empty"}
                   /\ ev.page < srch.max_pages) => srch.pc = "next"
               /\ ev.what = "next_clicked" => srch.pc = "extract"
               /\ (\/ ev.what \in {"extract_failed", "next_none", "next_failed"}
                   \/ (ev.what \in Extracts /\ ev.page = srch.max_pages))
                        => SearchDone
    /\ srch.pc = "next" => srch.trail # <<>>

(* C19 witness: page 1 had no results, its next control was clicked and
   page 2 has been extracted. *)
C19_Witness ==
    /\ Len(srch.trail) >= 3
    /\ srch.trail[1] = [page |-> 1, what |-> "extract_empty"]
    /\ srch.trail[2] = [page |-> 1, what |-> "next_clicked"]
    /\ srch.trail[3].page = 2 /\ srch.trail[3].what \in Extracts

(* C30: when the 300 seconds of MERXScraper.search have expired, the
   search in flight is cancelled, and search returns the empty list
   without raising, whatever its pages had given before. *)
C30_ExpiryCancelsAndReturnsEmpty ==
    /\ [](srch # IdleSrch /\ srch.expired =>
            /\ SearchDone /\ srch.ret = "list" /\ srch.found = 0)
    /\ [][srch # IdleSrch /\ srch.expired => srch' = srch]_vars

(***************************************************************************)
(* SpecSession: the browser sessions of scan cycles.  A cycle runs its     *)
(* adapters one after the other (the portal loop of _execute_scans_async,  *)
(* tasks.py 187-276; the awaits of scan_all_portals, main.py 1731-1773);   *)
(* two cycles can be under way at once (the periodic tasks of tasks.py     *)
(* 105-147 started by Celery beat on different workers, and the scheduler  *)
(* of main.py).  A browser-backed adapter of main.py asks the grid for a   *)
(* session of its own with get_driver() and quits it in its finally        *)
(* clause.  sess.open holds the open sessions, each with the cycle that    *)
(* opened it; sess.cycles[w].driver is the session the adapter running in  *)
(* cycle w works with (0: none).                                           *)
(***************************************************************************)
CycleWorkers == {1, 2}

CycleKinds == {"tasks", "main"}

(* The adapters a cycle runs, in order (tasks.py 316 and 187; main.py
   1733-1740). *)
AdapterList(kind) ==
    IF kind = "tasks" THEN <<"canadabuys", "sasktenders", "ontario">>
    ELSE <<"canadabuys", "merx", "bcbid">>

(* Feed-backed adapters need no browser (scan_canadabuys, main.py
   566-638). *)
FeedBacked(adapter) == adapter = "canadabuys"

(* In a Celery cycle the statically scraped browser portals never get a
   session: scanner.selenium.create_driver() raises (tasks.py 249). *)
OpensSession(kind, adapter) ==
    /\ ~FeedBacked(adapter)
    /\ ~(kind = "tasks" /\ Dispatch(adapter) = "create_driver")

(* Adapters of one cycle that run at a time, browser-backed and
   feed-backed alike: each call is awaited before the next is made. *)
BrowserConcurrency == 1

FeedConcurrency == 1

NoCycle ==
    [kind |-> "none", pc |-> "idle", queue |-> <<>>, adapter |-> "",
     driver |-> 0]

SessionInit ==
    /\ Quiet
    /\ srch = IdleSrch /\ drv = IdleDrv
    /\ ext = IdleExt /\ mat = IdleMat /\ casc = IdleCasc
    /\ sess = [cycles |-> [w \in CycleWorkers |-> NoCycle], open |-> {}, n |-> 0]

(* driver.quit() in the finally clause of the adapter. *)
QuitSkipped(open, id) == open

Quit(open, id) == {x \in open : x.id # id}

(* A cycle is started. *)
SessionStart(w) ==
    /\ sess.cycles[w].pc = "idle"
    /\ \E kind \in CycleKinds :
        sess' = [sess EXCEPT !.cycles[w] =
                    [NoCycle EXCEPT !.kind = kind, !.pc = "loop",
                                    !.queue = AdapterList(kind)]]
    /\ UNCHANGED <<Rest, srch, drv, ext, mat, casc>>

(* The next adapter of the cycle is called.  One that gets no session in
   this cycle is over at once as far as sessions go. *)
AdapterBegin(w) ==
    /\ sess.cycles[w].pc = "loop" /\ sess.cycles[w].queue # <<>>
    /\ LET c == sess.cycles[w]
           adapter == Head(c.queue)
       IN sess' = [sess EXCEPT !.cycles[w] =
                    [c EXCEPT !.adapter = adapter, !.queue = Tail(c.queue),
                              !.pc = IF OpensSession(c.kind, adapter)
                                     THEN "opening"
                                     ELSE IF FeedBacked(adapter) THEN "running"
                                     ELSE "loop"]]
    /\ UNCHANGED <<Rest, srch, drv, ext, mat, casc>>

(* get_driver() (main.py 416-428): a new session, or an exception, which
   the adapter logs before it returns its empty list. *)
OpenSession(w) ==
    /\ sess.cycles[w].pc = "opening"
    /\ \E up \in BOOLEAN :
        sess' = IF up
                THEN [sess EXCEPT !.n = @ + 1,
                        !.open = @ \cup {[id |-> sess.n + 1, cycle |-> w]},
                        !.cycles[w].driver = sess.n + 1,
                        !.cycles[w].pc = "running"]
                ELSE [sess EXCEPT !.cycles[w].pc = "loop"]
    /\ UNCHANGED <<Rest, srch, drv, ext, mat, casc>>

(* The adapter returns; one with a session quits it first. *)
AdapterEnd(w) ==
    /\ sess.cycles[w].pc = "running"
    /\ sess' = [sess EXCEPT !.open = Quit(@, sess.cycles[w].driver),
                            !.cycles[w].driver = 0,
                            !.cycles[w].pc = "loop"]
    /\ UNCHANGED <<Rest, srch, drv, ext, mat, casc>>

(* The cycle is over. *)
SessionEnd(w) ==
    /\ sess.cycles[w].pc = "loop" /\ sess.cycles[w].queue = <<>>
    /\ sess' = [sess EXCEPT !.cycles[w].pc = "done", !.cycles[w].adapter = ""]
    /\ UNCHANGED <<Rest, srch, drv, ext, mat, casc>>

SessionNext ==
    \E w \in CycleWorkers :
        \/ SessionStart(w) \/ AdapterBegin(w) \/ OpenSession(w)
        \/ AdapterEnd(w) \/ SessionEnd(w)

SpecSession == SessionInit /\ [][SessionNext]_vars

(* The adapters working with session id. *)
UsersOf(id) == {w \in CycleWorkers : sess.cycles[w].driver = id}

OpenIn(w) == {x \in sess.open : x.cycle = w}

(* C16 as stated: every open session is in use by at most one adapter,
   and the number of open sessions never exceeds the bound for browser
   work, which is smaller than the bound for feed-backed sources. *)
C16_PoolBounded ==
    /\ \A x \in sess.open : Cardinality(UsersOf(x.id)) <= 1
    /\ Cardinality(sess.open) <= BrowserConcurrency
    /\ (\E w \in CycleWorkers : sess.cycles[w].pc = "running")
            => BrowserConcurrency < FeedConcurrency

(* C16 amended: every open session is in use by exactly one adapter, the
   one running in the cycle that opened it; a cycle has at most one
   session open at any moment, none while a feed-backed adapter runs and
   none when it is over.  The code sets no bound on the sessions of
   cycles that run at the same time, and none for feed-backed sources. *)
C16_OneSessionPerCycle ==
    /\ \A x \in sess.open :
            /\ UsersOf(x.id) = {x.cycle}
            /\ sess.cycles[x.cycle].pc = "running"
            /\ ~FeedBacked(sess.cycles[x.cycle].adapter)
    /\ \A w \in CycleWorkers :
            /\ Cardinality(OpenIn(w)) <= BrowserConcurrency
            /\ sess.cycles[w].pc \in {"idle", "loop", "opening", "done"}
                    => OpenIn(w) = {}
            /\ sess.cycles[w].driver # 0
                    => \E x \in OpenIn(w) : x.id = sess.cycles[w].driver

(* C16 witness: two cycles have a session open each at the same moment. *)
C16_Witness ==
    /\ Cardinality(sess.open) = 2
    /\ \A w \in CycleWorkers : Cardinality(OpenIn(w)) = 1

(***************************************************************************)
(* SpecExtract: what the adapters make of one listing element.  An element *)
(* is what the page or the feed shows: the words of its title and of its   *)
(* description (the empty set is the empty string) and the identifier the  *)
(* source supplies ("" when it supplies none).  The link of an element     *)
(* enters no identifier synthesis and no filter and is left out.           *)
(* ext.out holds the results of the scans made so far, each with the       *)
(* element and the time of the scan; ext.stored holds the rows the scans   *)
(* have saved, one per tender_id.                                          *)
(***************************************************************************)
MaxExtracts == 2

(* Training keywords of _is_training_related (main.py 1330-1338) and words
   that are none of them. *)
TrainingKeywords == {"training", "course"}

ExtTitles == {{}, {"equipment"}, {"training", "course"}}

ExtDescriptions == {{}, {"equipment"}, {"training"}}

Elements ==
    [title : ExtTitles, description : ExtDescriptions, id : {"", "T1"}]

(* main.py: _parse_canadabuys_row and _parse_bidsandtenders_element;
   scrapers.py: MERXScraper, BidsAndTendersScraper, scan_saskatchewan_tenders *)
ExtAdapters ==
    {"canadabuys", "bidsandtenders", "MERXScraper", "BidsAndTendersScraper",
     "sasktenders"}

(* Identifiers: the one the source supplies, the one made of the title,
   hashlib.md5(title.encode()).hexdigest()[:8], and the one made of the
   time of the scan, f"BIDSANDTENDERS_{datetime.now().timestamp()}". *)
Supplied(id) == [kind |-> id, of |-> {}, at |-> 0]

Md5(title) == [kind |-> "md5", of |-> title, at |-> 0]

Timestamped(clock) == [kind |-> "BIDSANDTENDERS", of |-> {}, at |-> clock]

Dict(id, title, description) ==
    [tender_id |-> id, title |-> title, description |-> description]

(* _parse_canadabuys_row (main.py 640-675) *)
parse_canadabuys_row(el, clock) ==
    IF el.id # "" THEN Dict(Supplied(el.id), el.title, el.description)
    ELSE NoRec

(* _parse_bidsandtenders_element (main.py 1509-1591): the description is
   the first text that differs from the title. *)
parse_bidsandtenders_element(el, clock) ==
    IF el.title = {} THEN NoRec
    ELSE Dict(IF el.id # "" THEN Supplied(el.id) ELSE Timestamped(clock),
              el.title,
              IF el.description # el.title THEN el.description ELSE {})

(* MERXScraper._parse_tender_card and _extract_tender_id (scrapers.py
   1479-1616): without a title the text of the card stands in for it. *)
parse_tender_card(el, clock) ==
    LET title == IF el.title # {} THEN el.title
                 ELSE el.title \cup el.description
    IN Dict(IF el.id # "" THEN Supplied(el.id) ELSE Md5(title), title,
            el.description)

(* BidsAndTendersScraper._parse_tender_element and _extract_tender_id
   (scrapers.py 2799-2894) *)
parse_tender_element(el, clock) ==
    IF el.title = {} THEN NoRec
    ELSE Dict(IF el.id # "" THEN Supplied(el.id) ELSE Md5(el.title), el.title,
              el.description)

(* scan_saskatchewan_tenders (scrapers.py 141-158) *)
scan_saskatchewan_tenders(el, clock) == Dict(Supplied(el.id), el.title, {})

(* _is_training_related (main.py 1321-1340) *)
is_training_related(t) ==
    \/ t.title # {} /\ t.description # {}
    \/ (t.title \cup t.description) \cap TrainingKeywords # {}

(* The scan methods of main.py keep a dict only if _is_training_related
   accepts it (main.py 616, 1498); the scrapers of scrapers.py append every
   dict their parser returns (scrapers.py 1467-1469, 2787-2789, 158). *)
Filtered(adapter) == adapter \in {"canadabuys", "bidsandtenders"}

ParseElement(adapter, el, clock) ==
    CASE adapter = "canadabuys" -> parse_canadabuys_row(el, clock)
      [] adapter = "bidsandtenders" -> parse_bidsandtenders_element(el, clock)
      [] adapter = "MERXScraper" -> parse_tender_card(el, clock)
      [] adapter = "BidsAndTendersScraper" -> parse_tender_element(el, clock)
      [] adapter = "sasktenders" -> scan_saskatchewan_tenders(el, clock)

(* What the adapter returns for a page that shows the element el. *)
Candidate_of(adapter, el, clock) ==
    LET t == ParseElement(adapter, el, clock)
    IN IF t # NoRec /\ (Filtered(adapter) => is_training_related(t))
       THEN t ELSE NoRec

(* The dicts of 'canadabuys' and of the 'bidsandtenders' portals are the
   ones the cycles save (tasks.py 197-233, main.py 1733-1790). *)
Persists(adapter) == Filtered(adapter)

(* save_tender_to_db (models.py 51-120): one row per tender_id. *)
ExtSave(stored, t) == {r \in stored : r.tender_id # t.tender_id} \cup {t}

ExtInit ==
    /\ Quiet
    /\ srch = IdleSrch /\ drv = IdleDrv /\ sess = IdleSess
    /\ mat = IdleMat /\ casc = IdleCasc
    /\ \E adapter \in ExtAdapters :
         ext = [adapter |-> adapter, clock |-> 0, out |-> <<>>, stored |-> {}]

(* One scan of a page that shows one element, and the save of what the
   adapter returned. *)
ExtScan ==
    /\ ext # IdleExt
    /\ Len(ext.out) < MaxExtracts
    /\ \E el \in Elements :
         LET t == Candidate_of(ext.adapter, el, ext.clock)
         IN ext' = [ext EXCEPT
                      !.out = Append(@, [el |-> el, ret |-> t,
                                         at |-> ext.clock]),
                      !.stored = IF t # NoRec /\ Persists(ext.adapter)
                                 THEN ExtSave(@, t) ELSE @]
    /\ UNCHANGED <<Rest, srch, drv, sess, mat, casc>>

(* Time passes between two scans. *)
ExtTick ==
    /\ ext # IdleExt
    /\ ext.clock < MaxTicks
    /\ ext' = [ext EXCEPT !.clock = @ + 1]
    /\ UNCHANGED <<Rest, srch, drv, sess, mat, casc>>

ExtNext == ExtScan \/ ExtTick

SpecExtract == ExtInit /\ [][ExtNext]_vars

Scans == IF ext = IdleExt THEN {} ELSE DOMAIN ext.out

(* C21: every candidate an adapter returns and every stored record has a
   non-empty title. *)
C21_TitleNeverEmpty ==
    /\ \A i \in Scans : ext.out[i].ret # NoRec => ext.out[i].ret.title # {}
    /\ ext # IdleExt => \A r \in ext.stored : r.title # {}

(* C22: two extractions of elements without identifier and with equal
   titles synthesize the same tenderId, whenever they are made. *)
C22_SynthesizedIdDeterministic ==
    \A i, j \in Scans :
        LET a == ext.out[i]
            b == ext.out[j]
        IN (/\ a.el.id = "" /\ b.el.id = ""
            /\ a.ret # NoRec /\ b.ret # NoRec
            /\ a.el.title = b.el.title
            /\ a.el.description = b.el.description)
           => a.ret.tender_id = b.ret.tender_id

(* C23: an element whose text holds only exclusion terms is never
   persisted, and an element the parser accepts whose text holds two
   high-value terms is returned and persisted by every adapter whose dicts
   are saved. *)
C23_RelevanceSound ==
    \A i \in Scans :
        LET el == ext.out[i].el
            text == el.title \cup el.description
        IN /\ (text # {} /\ text \subseteq {"equipment"})
                => \A r \in ext.stored : r.title \cup r.description # text
           /\ (/\ Cardinality(text \cap TrainingKeywords) >= 2
               /\ Persists(ext.adapter)
               /\ ParseElement(ext.adapter, el, ext.out[i].at) # NoRec)
                => /\ ext.out[i].ret # NoRec
                   /\ i = Len(ext.out) => ext.out[i].ret \in ext.stored

(***************************************************************************)
(* SpecMatcher: the two statements that give a dict its matching_courses   *)
(* and its priority (tasks.py 160-161, main.py 1783-1784), taken on one    *)
(* candidate by one process after another.  The TenderMatcher of both save *)
(* loops is the one of main.py (tasks.py 25-31); matcher.py holds another  *)
(* TenderMatcher that no module imports.  A process has its own hash seed: *)
(* mat.seed is the seed of the process that runs now.  mat.runs holds what *)
(* each run made of the candidate mat.c.                                   *)
(***************************************************************************)
MaxRuns == 2

MatPortals == {"CanadaBuys", "MERX", "BC Bid"}

Values == {0, 600000, 2000000}

MatClosings == {NoDate, 5, 10, 40}

MatCandidate(portal, title, value, d) ==
    [tender_id |-> "T1", portal |-> portal, title |-> title, value |-> value,
     closing_date |-> d, posted_date |-> NoDate,
     categories |-> ExtractCategories(TermsOf(title)),
     keywords |-> ExtractKeywords(TermsOf(title)), has_portal_url |-> TRUE]

(* TenderMatcher.calculate_priority of matcher.py (24-77): the score. *)
Score(t, clock) ==
    LET value == IF t.value > 1000000 THEN 5
                 ELSE IF t.value > 500000 THEN 3
                 ELSE IF t.value > 100000 THEN 2
                 ELSE IF t.value > 50000 THEN 1 ELSE 0
        days_until_closing == t.closing_date - clock
        days == IF t.closing_date = NoDate THEN 0
                ELSE IF days_until_closing <= 7 THEN 5
                ELSE IF days_until_closing <= 14 THEN 3
                ELSE IF days_until_closing <= 30 THEN 1 ELSE 0
        portal == IF t.portal = "CanadaBuys" THEN 3
                  ELSE IF t.portal = "MERX" THEN 2 ELSE 0
    IN value + days + portal + Len(t.matching_courses) * 2

(* The cutoffs of matcher.py (71-77). *)
Tier(score) ==
    IF score >= 8 THEN "high" ELSE IF score >= 5 THEN "medium" ELSE "low"

MatInit ==
    /\ Quiet
    /\ srch = IdleSrch /\ drv = IdleDrv /\ sess = IdleSess /\ ext = IdleExt
    /\ casc = IdleCasc
    /\ \E portal \in MatPortals, title \in Titles, value \in Values,
          d \in MatClosings, seed \in Seeds :
         mat = [c |-> MatCandidate(portal, title, value, d), seed |-> seed,
                runs |-> <<>>]

(* One run of the two statements and of the hash of save_tender_to_db
   (models.py 54-57) on the candidate. *)
MatRun ==
    /\ mat # IdleMat
    /\ Len(mat.runs) < MaxRuns
    /\ LET t == Augment(mat.c, mat.seed, now)
       IN mat' = [mat EXCEPT !.runs = Append(@, [seed |-> mat.seed, t |-> t,
                                                 hash |-> ContentHash(t)])]
    /\ UNCHANGED <<Rest, srch, drv, sess, ext, casc>>

(* The worker process is replaced by a new one: another hash seed. *)
MatRestart ==
    /\ mat # IdleMat
    /\ Len(mat.runs) < MaxRuns
    /\ \E seed \in Seeds \ {mat.seed} : mat' = [mat EXCEPT !.seed = seed]
    /\ UNCHANGED <<Rest, srch, drv, sess, ext, casc>>

MatNext == MatRun \/ MatRestart

SpecMatcher == MatInit /\ [][MatNext]_vars

Runs == IF mat = IdleMat THEN {} ELSE DOMAIN mat.runs

(* C24: the priority a record is saved with is the tier of the additive
   score of value bracket, days-to-close bracket, source bonus and matched
   courses, with the cutoffs 8 and 5, and is one of high, medium, low. *)
C24_PriorityIsScoreTier ==
    \A i \in Runs :
        /\ mat.runs[i].t.priority = Tier(Score(mat.runs[i].t, now))
        /\ mat.runs[i].t.priority \in {"high", "medium", "low"}

(* C27: a candidate without closing date is saved, with the priority the
   same candidate gets when its closing date is too far away to count. *)
C27_NullClosingCountsRest ==
    \A i \in Runs :
        LET t == mat.runs[i].t
        IN t.closing_date = NoDate
             => t.priority =
                  calculate_priority([t EXCEPT !.closing_date = now + 365], now)

(* C29: two runs on the same candidate give the same matching_courses in
   the same order and so the same contentHash. *)
C29_CoursesDeterministic ==
    \A i, j \in Runs :
        /\ mat.runs[i].t.matching_courses = mat.runs[j].t.matching_courses
        /\ mat.runs[i].hash = mat.runs[j].hash

(***************************************************************************)
(* SpecCascade: the selector cascades of the adapters.  A cascade walks a  *)
(* fixed list of locators; on the page at hand a locator resolves to no    *)
(* element (find_element raises), to an element that is not displayed      *)
(* ("hidden"), to a displayed element that is not enabled and carries      *)
(* 'disabled' in its class ("disabled"), or to a displayed and enabled     *)
(* element ("usable").  casc.page lists the resolutions in the order of    *)
(* the locators.                                                           *)
(***************************************************************************)
MaxLocators == 3

Resolutions == {"absent", "hidden", "disabled", "usable"}

(* The cascades for the search input, the submit button and the next link
   of MERXScraper._perform_search and BidsAndTendersScraper._go_to_next_page *)
Cascades == {"search_input", "search_button", "next_button", "next_btn"}

(* The loops of _perform_search (scrapers.py 975-982, 1019-1026,
   1075-1082): the variable is assigned before the element is tested and
   the loop is left with "break" at the first displayed and enabled
   element; held is the value the variable has when locator i is tried. *)
RECURSIVE PerformSearchCascade(_, _, _)
PerformSearchCascade(page, i, held) ==
    IF i > Len(page) THEN held
    ELSE IF page[i] = "absent" THEN PerformSearchCascade(page, i + 1, held)
    ELSE IF page[i] = "usable" THEN i
    ELSE PerformSearchCascade(page, i + 1, i)

(* The loop of _go_to_next_page (scrapers.py 3043-3052): the click and the
   return sit inside the test; after the loop, "return False". *)
RECURSIVE GoToNextPageCascade(_, _)
GoToNextPageCascade(page, i) ==
    IF i > Len(page) THEN 0
    ELSE IF page[i] = "usable" THEN i
    ELSE GoToNextPageCascade(page, i + 1)

(* The locator whose element the cascade goes on with; 0: none. *)
Chosen(cascade, page) ==
    IF cascade = "next_btn" THEN GoToNextPageCascade(page, 1)
    ELSE PerformSearchCascade(page, 1, 0)

(* What follows the cascade: clear() and send_keys() on the input
   (scrapers.py 1001-1003), click() on the button (1033), click() on the
   next link unless its class holds 'disabled' (1084-1085), the script
   click (3046); without an element the fallback of the cascade: return
   (984-998), the Enter key (1028-1031), break (1087-1089),
   "return False" (3054). *)
Uses(cascade, page, chosen) ==
    /\ chosen # 0
    /\ cascade = "next_button" => page[chosen] # "disabled"

CascInit ==
    /\ Quiet
    /\ srch = IdleSrch /\ drv = IdleDrv /\ sess = IdleSess
    /\ ext = IdleExt /\ mat = IdleMat
    /\ \E cascade \in Cascades, page \in [1..MaxLocators -> Resolutions] :
         casc = [cascade |-> cascade, page |-> page, pc |-> "start",
                 chosen |-> 0, act |-> "none"]

(* The cascade and the statement that follows it. *)
CascRun ==
    /\ casc # IdleCasc
    /\ casc.pc = "start"
    /\ LET chosen == Chosen(casc.cascade, casc.page)
       IN casc' = [casc EXCEPT
                     !.pc = "done",
                     !.chosen = chosen,
                     !.act = IF Uses(casc.cascade, casc.page, chosen)
                             THEN "used" ELSE "fallback"]
    /\ UNCHANGED <<Rest, srch, drv, sess, ext, mat>>

CascNext == CascRun

SpecCascade == CascInit /\ [][CascNext]_vars

Usable(page) == {i \in DOMAIN page : page[i] = "usable"}

(* C26: the cascade goes on with the element of the first locator that
   resolves to a displayed and enabled element; when no locator does, it
   takes its fallback, and it never types into or clicks an element that
   is hidden or disabled. *)
C26_FirstUsableOrFallback ==
    casc # IdleCasc /\ casc.pc = "done"
        => /\ Usable(casc.page) # {}
                => /\ casc.act = "used"
                   /\ casc.chosen \in Usable(casc.page)
                   /\ \A i \in Usable(casc.page) : casc.chosen <= i
           /\ Usable(casc.page) = {} => casc.act = "fallback"
           /\ casc.act = "used" => casc.page[casc.chosen] = "usable"

====
